---- MODULE Spec2Model ----
(***************************************************************************)
(* Graph-based conversation execution engine of the AI platform:           *)
(*   app/services/langchain_service.py  (LangChainService)                 *)
(*   app/api/v1/endpoints/chat.py       (send_message)                     *)
(*                                                                         *)
(* Strings are modelled as sequences of tokens (a token is a word, a       *)
(* blank, or one JSON-object-shaped / call-shaped piece of text), so that  *)
(* stripping, lower-casing, substring search and parsing are computed.     *)
(***************************************************************************)
EXTENDS Integers, Sequences, FiniteSets, TLC

(***************************************************************************)
(* Bounds of the model                                                     *)
(***************************************************************************)
\* largest number of node executions of one graph run that is explored
MaxHops == 3

\* longest text, in tokens, handed to the parser on its own
MaxLen == 3

(***************************************************************************)
(* Text helpers                                                            *)
(***************************************************************************)
Last(s) == s[Len(s)]

\* the tokens that render as white space
Blank == {" "}

RECURSIVE LStrip(_)
LStrip(t) == IF t # <<>> /\ Head(t) \in Blank THEN LStrip(Tail(t)) ELSE t

RECURSIVE RStrip(_)
RStrip(t) == IF t # <<>> /\ Last(t) \in Blank THEN RStrip(SubSeq(t, 1, Len(t) - 1)) ELSE t

\* str.strip()
Strip(t) == RStrip(LStrip(t))

\* str.lower(), token by token
LowerTok(c) ==
    CASE c = "Billing" -> "billing"
      [] c = "BILLING" -> "billing"
      [] c = "Refund"  -> "refund"
      [] c = "GENERAL" -> "general"
      [] c = "B"       -> "b"
      [] OTHER -> c

Lower(t) == [i \in 1..Len(t) |-> LowerTok(t[i])]

\* `needle in haystack` of Python strings
Contains(needle, haystack) ==
    \E i \in 0..(Len(haystack) - Len(needle)) :
        SubSeq(haystack, i + 1, i + Len(needle)) = needle

\* the two fixed apology texts of the turn loop and the fixed reply of process_message
APOLOGY_ERROR == <<"Sorry, an error occurred while processing the request. Try to rephrase the question.">>
APOLOGY_EMPTY == <<"Sorry, no answer could be obtained. Try to rephrase the question.">>
FALLBACK_REPLY == <<"Sorry, the request could not be processed. Try to rephrase the question.">>

(***************************************************************************)
(* _normalize_content                                                      *)
(***************************************************************************)
\* tokens that start with "_" and contain "_prompt" or "_request"
StrangeKeys == {"_system_prompt"}

_normalize_content(content) ==
    LET normalized == Strip(content)
    IN  IF normalized # <<>> /\ normalized[1] \in StrangeKeys THEN <<>> ELSE normalized

(***************************************************************************)
(* JSON-shaped and call-shaped tokens and what they parse to               *)
(***************************************************************************)
\* texts of tool-call envelopes as the model writes them
ENV_SLOTS == "{\"action\":\"tool\",\"tool_name\":\"get_available_slots\",\"arguments\":{\"date\":\"2025-12-08\"}}"
ENV_BOOK == "{\"action\":\"tool\",\"tool_name\":\"book_appointment\",\"arguments\":{\"date\":\"2025-12-08\"}}"
ENV_SEARCH == "{\"action\":\"tool\",\"tool_name\":\"search_documents\",\"arguments\":{\"query\":\"billing\"}}"
ENV_SEARCH_NOARGS == "{\"action\":\"tool\",\"tool_name\":\"search_documents\",\"arguments\":{}}"
ENV_UNKNOWN == "{\"action\":\"tool\",\"tool_name\":\"no_such_tool\",\"arguments\":{\"a\":\"1\"}}"
ENV_T == "{\"action\":\"tool\",\"tool_name\":\"t\",\"arguments\":{\"a\":\"1\"}}"

NoPayload == [isdict |-> FALSE, action |-> "", tool_name |-> "", arguments |-> {}]

\* json.loads of one JSON-object-shaped token
JsonObject(tok) ==
    CASE tok = ENV_SLOTS ->
            [isdict |-> TRUE, action |-> "tool", tool_name |-> "get_available_slots",
             arguments |-> {<<"date", "2025-12-08">>}]
      [] tok = ENV_BOOK ->
            [isdict |-> TRUE, action |-> "tool", tool_name |-> "book_appointment",
             arguments |-> {<<"date", "2025-12-08">>}]
      [] tok = ENV_SEARCH ->
            [isdict |-> TRUE, action |-> "tool", tool_name |-> "search_documents",
             arguments |-> {<<"query", "billing">>}]
      [] tok = ENV_SEARCH_NOARGS ->
            [isdict |-> TRUE, action |-> "tool", tool_name |-> "search_documents",
             arguments |-> {}]
      [] tok = ENV_UNKNOWN ->
            [isdict |-> TRUE, action |-> "tool", tool_name |-> "no_such_tool",
             arguments |-> {<<"a", "1">>}]
      [] tok = ENV_T ->
            [isdict |-> TRUE, action |-> "tool", tool_name |-> "t",
             arguments |-> {<<"a", "1">>}]
      [] tok = "{\"foo\":1}" ->
            [isdict |-> TRUE, action |-> "", tool_name |-> "", arguments |-> {}]
      [] OTHER -> NoPayload

\* tokens json.loads accepts as a whole document
JsonTokens ==
    {ENV_SLOTS,
     ENV_BOOK,
     ENV_SEARCH,
     ENV_SEARCH_NOARGS,
     ENV_UNKNOWN,
     ENV_T,
     "{\"foo\":1}"}

\* tokens matched by the regular expression for an object that holds "action":"tool"
EnvelopeTokens == {tok \in JsonTokens : JsonObject(tok).action = "tool"}

\* tokens whose first character is { or [
BracketTokens == JsonTokens \cup {"[note]"}

\* tokens of the form name(key='value'), matched by python_call_pattern
PythonCall(tok) ==
    CASE tok = "get_available_slots(date='2025-12-08')" ->
            [isdict |-> TRUE, action |-> "tool", tool_name |-> "get_available_slots",
             arguments |-> {<<"date", "2025-12-08">>}]
      [] OTHER -> NoPayload

PythonCallTokens == {"get_available_slots(date='2025-12-08')"}

\* a call-shaped text whose parameter value is the one character U+00B2 (superscript two):
\* python_call_pattern matches it and str.isdigit() accepts the value
SUPERSCRIPT_CALL == "book_appointment(slot_id=<U+00B2>)"

\* tokens matched by python_call_pattern with a value for which isdigit() is true and
\* int() raises ValueError
PythonCallRaising == {SUPERSCRIPT_CALL}

VALUE_ERROR == <<"ValueError", "invalid literal for int() with base 10">>

\* tokens of the form name:value, matched by simple_pattern
SimpleCall(tok) ==
    CASE tok = "Note:important" ->
            [isdict |-> TRUE, action |-> "tool", tool_name |-> "Note",
             arguments |-> {<<"query", "important">>}]
      [] OTHER -> NoPayload

SimpleCallTokens == {"Note:important"}

\* a text that opens with "name:" and a bracket, matched by result_pattern
RESULT_SEARCH == "search_documents: ["

ResultTokens == {RESULT_SEARCH}

\* the tool indicator of such a text: the name in front of the colon
ResultIndicator(tok) == IF tok = RESULT_SEARCH THEN "search_documents" ELSE ""

\* the indicator and the tool name share the name or one of its words of more than
\* three letters; among the tool names of the model only the name itself does
ToolMatchesIndicator(tool, tool_indicator) == tool = tool_indicator

\* dates as users write them, and date_value: YYYY-MM-DD as it is, DD.MM.YYYY reordered
IsoDateTokens == {"2025-12-01"}
DottedDateTokens == {"08.12.2025"}

NormalizedDate(tok) ==
    CASE tok = "08.12.2025" -> "2025-12-08"
      [] OTHER -> tok

(***************************************************************************)
(* _extract_tool_calls                                                     *)
(***************************************************************************)
RECURSIVE SelectTokens(_, _)
\* re.findall: the tokens of t that belong to S, in order of occurrence
SelectTokens(t, S) ==
    IF t = <<>> THEN <<>>
    ELSE (IF Head(t) \in S THEN <<Head(t)>> ELSE <<>>) \o SelectTokens(Tail(t), S)

\* the date the patterns find in one message: the first YYYY-MM-DD if there is one,
\* else the first DD.MM.YYYY, normalized; "" when the message holds no date
DateOf(content) ==
    LET iso == SelectTokens(content, IsoDateTokens)
        dotted == SelectTokens(content, DottedDateTokens)
    IN  IF Len(iso) > 0 THEN iso[1]
        ELSE IF Len(dotted) > 0 THEN NormalizedDate(dotted[1])
        ELSE ""

RECURSIVE ContextDate(_)
\* the date of the most recent real user message of the context that holds one
ContextDate(messages_context) ==
    IF messages_context = <<>> THEN ""
    ELSE LET msg == Last(messages_context)
         IN  IF msg.type = "human" /\ ~msg.from_tool /\ DateOf(msg.content) # ""
             THEN DateOf(msg.content)
             ELSE ContextDate(SubSeq(messages_context, 1, Len(messages_context) - 1))

\* the payloads found inside `if not payloads:` whose arguments are empty get a date
\* argument from the context
BackfillDate(payloads, messages_context) ==
    [i \in 1..Len(payloads) |->
        IF payloads[i].arguments = {} /\ ContextDate(messages_context) # ""
        THEN [payloads[i] EXCEPT !.arguments = {<<"date", ContextDate(messages_context)>>}]
        ELSE payloads[i]]

\* the strategy for "name: [" texts: a call of the first tool that fits the indicator;
\* no args_schema of the tools holds a field named like a date, so it carries no argument
ResultPayloads(normalized, available_tools) ==
    LET fitting == IF normalized[1] \in ResultTokens
                   THEN SelectSeq(available_tools,
                                  LAMBDA tool : ToolMatchesIndicator(tool,
                                                    ResultIndicator(normalized[1])))
                   ELSE <<>>
    IN  IF Len(fitting) > 0
        THEN <<[isdict |-> TRUE, action |-> "tool", tool_name |-> fitting[1],
                arguments |-> {}]>>
        ELSE <<>>

\* only the first strategy: json.loads of the whole content
ParsePayloadsWholeOnly(normalized, messages_context, available_tools) ==
    IF Len(normalized) = 1 /\ normalized[1] \in JsonTokens
    THEN <<JsonObject(normalized[1])>> ELSE <<>>

\* payloads collected by the cascade of strategies, in the order the code tries them
ParsePayloads(normalized, messages_context, available_tools) ==
    IF Len(normalized) = 1 /\ normalized[1] \in JsonTokens
    THEN \* json.loads(normalized) succeeds: no other strategy runs
         <<JsonObject(normalized[1])>>
    ELSE LET matches == SelectTokens(normalized, EnvelopeTokens)
             json_payloads == [i \in 1..Len(matches) |-> JsonObject(matches[i])]
             python_matches == SelectTokens(normalized, PythonCallTokens \cup PythonCallRaising)
             python_payloads ==
                 IF Len(python_matches) > 0 /\ PythonCall(python_matches[1]).arguments # {}
                 THEN <<PythonCall(python_matches[1])>> ELSE <<>>
             result_payloads == ResultPayloads(normalized, available_tools)
             simple_matches == SelectTokens(normalized, SimpleCallTokens)
             simple_payloads == [i \in 1..Len(simple_matches) |-> SimpleCall(simple_matches[i])]
         IN  IF Len(json_payloads) > 0 THEN json_payloads
             ELSE BackfillDate(IF Len(python_payloads) > 0 THEN python_payloads
                               ELSE IF Len(result_payloads) > 0 THEN result_payloads
                               ELSE simple_payloads,
                               messages_context)

\* the exception that leaves the cascade of strategies, <<>> when it runs to its end:
\* no statement of _extract_tool_calls encloses the int() of the call-shaped strategy
ParseError(normalized) ==
    IF Len(normalized) = 1 /\ normalized[1] \in JsonTokens THEN <<>>
    ELSE LET matches == SelectTokens(normalized, EnvelopeTokens)
             python_matches == SelectTokens(normalized, PythonCallTokens \cup PythonCallRaising)
         IN  IF Len(matches) = 0 /\ Len(python_matches) > 0
                  /\ python_matches[1] \in PythonCallRaising
             THEN VALUE_ERROR ELSE <<>>

RECURSIVE PayloadsToCalls(_)
\* the closing loop of _extract_tool_calls: keep dict payloads with action "tool" and a name
PayloadsToCalls(payloads) ==
    IF payloads = <<>> THEN <<>>
    ELSE LET item == Head(payloads)
         IN  (IF item.isdict /\ item.action = "tool" /\ item.tool_name # ""
              THEN <<[id |-> <<"call_", item.tool_name>>,
                      name |-> item.tool_name,
                      arguments |-> item.arguments]>>
              ELSE <<>>) \o PayloadsToCalls(Tail(payloads))

\* messages_context and available_tools are consulted by the strategy for "name: ["
\* texts and by the date backfill; the strategies for bare parameter tuples are
\* triggered by no text of the vocabulary
_extract_tool_calls(content, messages_context, available_tools) ==
    LET normalized == _normalize_content(content)
    IN  IF Len(normalized) = 0 THEN <<>>
        ELSE PayloadsToCalls(ParsePayloads(normalized, messages_context, available_tools))

\* the exception _extract_tool_calls raises on the content, <<>> when it returns
_extract_tool_calls_raises(content) ==
    LET normalized == _normalize_content(content)
    IN  IF Len(normalized) = 0 THEN <<>> ELSE ParseError(normalized)

(***************************************************************************)
(* Messages                                                                *)
(***************************************************************************)
NoId == <<>>

HumanMessage(content) ==
    [type |-> "human", content |-> content, from_tool |-> FALSE,
     tool_call_id |-> NoId, tool_calls |-> <<>>]

\* a tool result or retrieval context appended as a plain user message
UnmarkedToolMessage(content, id) ==
    [type |-> "human", content |-> content, from_tool |-> FALSE,
     tool_call_id |-> id, tool_calls |-> <<>>]

ToolOriginMessage(content, id) ==
    [type |-> "human", content |-> content, from_tool |-> TRUE,
     tool_call_id |-> id, tool_calls |-> <<>>]

AIMessage(content) ==
    [type |-> "ai", content |-> content, from_tool |-> FALSE,
     tool_call_id |-> NoId, tool_calls |-> <<>>]

SystemMessage(content) ==
    [type |-> "system", content |-> content, from_tool |-> FALSE,
     tool_call_id |-> NoId, tool_calls |-> <<>>]

RECURSIVE _get_last_ai_index(_)
\* index of the last AIMessage, 0 for None
_get_last_ai_index(messages) ==
    IF messages = <<>> THEN 0
    ELSE IF Last(messages).type = "ai" THEN Len(messages)
    ELSE _get_last_ai_index(SubSeq(messages, 1, Len(messages) - 1))

\* the scan running forward: the first HumanMessage that is not marked from_tool
_get_first_user_index(messages) ==
    IF \A i \in 1..Len(messages) : messages[i].type # "human" \/ messages[i].from_tool
    THEN 0
    ELSE CHOOSE i \in 1..Len(messages) :
             /\ messages[i].type = "human" /\ ~messages[i].from_tool
             /\ \A j \in 1..(i - 1) : messages[j].type # "human" \/ messages[j].from_tool

RECURSIVE _get_last_user_index(_)
\* index of the last HumanMessage that is not marked from_tool, 0 for None
_get_last_user_index(messages) ==
    IF messages = <<>> THEN 0
    ELSE IF Last(messages).type = "human" /\ ~Last(messages).from_tool THEN Len(messages)
    ELSE _get_last_user_index(SubSeq(messages, 1, Len(messages) - 1))

\* _extract_user_query
_extract_user_query(messages) ==
    IF _get_last_user_index(messages) = 0 THEN <<>>
    ELSE messages[_get_last_user_index(messages)].content

(***************************************************************************)
(* Bot graph configurations (bot["config"]) the engine is run on           *)
(***************************************************************************)
Transition(target, type, value) ==
    [target_node_id |-> target, type |-> type, value |-> value]

Node(id, use_rag, allowed, tool_ids, transitions) ==
    [id |-> id, system_prompt |-> <<"prompt of", id>>, use_rag |-> use_rag,
     allowed_document_ids |-> allowed, api_tool_ids |-> tool_ids,
     transitions |-> transitions]

\* config["nodes"] is a list (nodes) or a string (nodes_str); an absent or empty value
\* is the empty list and the empty string
GraphConfig(entry, nodes) ==
    [entry_node_id |-> entry, nodes |-> nodes, nodes_str |-> "", use_rag |-> FALSE,
     api_tool_ids |-> <<>>]

\* config["nodes"] stored as text
StringNodesConfig(entry, text) ==
    [entry_node_id |-> entry, nodes |-> <<>>, nodes_str |-> text, use_rag |-> FALSE,
     api_tool_ids |-> <<>>]

\* texts found where a node list or a node is expected
NODES_JSON == "[{\"id\": \"A\"}]"
NODES_LITERAL == "[{'id': 'A'}]"
NODES_JSON_OBJECT == "{\"id\": \"A\"}"
NODES_GARBAGE == "A, B"
NODE_B_JSON == "{\"id\": \"B\"}"
NODE_NO_ID_JSON == "{\"name\": \"B\"}"
NODE_GARBAGE == "node B"

\* a node object that holds nothing but its id
BareNode(id) ==
    [id |-> id, system_prompt |-> <<>>, use_rag |-> FALSE, allowed_document_ids |-> {},
     api_tool_ids |-> <<>>, transitions |-> <<>>]

\* entries of a node list that are no node object with an id
DictNoId == [name |-> "nameless"]
StrEntry(text) == [str |-> text]
NumberEntry == [number |-> 5]

\* a bot stored before the graph model existed: neither nodes nor entry_node_id
LegacyConfig == GraphConfig("", <<>>)

SingleToolConfig == GraphConfig("main", <<Node("main", FALSE, {}, <<1>>, <<>>)>>)

TwoToolConfig == GraphConfig("main", <<Node("main", FALSE, {}, <<1, 2>>, <<>>)>>)

RagConfig == GraphConfig("main", <<Node("main", TRUE, {7}, <<>>, <<>>)>>)

\* A retrieves without an allowlist, B with the allowlist [7]
RagChainConfig ==
    GraphConfig("A", <<Node("A", TRUE, {}, <<>>, <<Transition("B", "always", <<>>)>>),
                       Node("B", TRUE, {7}, <<>>, <<>>)>>)

\* A --keyword "billing"--> B, B terminal
KeywordConfig ==
    GraphConfig("A", <<Node("A", FALSE, {}, <<>>, <<Transition("B", "keyword", <<"billing">>)>>),
                       Node("B", FALSE, {}, <<>>, <<>>)>>)

\* two keyword transitions, the second spelled in upper case
TwoKeywordConfig ==
    GraphConfig("A", <<Node("A", FALSE, {}, <<>>,
                            <<Transition("B", "keyword", <<"refund">>),
                              Transition("C", "keyword", <<"BILLING">>)>>),
                       Node("B", FALSE, {}, <<>>, <<>>),
                       Node("C", FALSE, {}, <<>>, <<>>)>>)

\* A --always--> B, B terminal
ChainConfig ==
    GraphConfig("A", <<Node("A", FALSE, {}, <<>>, <<Transition("B", "always", <<>>)>>),
                       Node("B", FALSE, {}, <<>>, <<>>)>>)

\* every node has an always transition: A --always--> B --always--> A
CycleConfig ==
    GraphConfig("A", <<Node("A", FALSE, {}, <<>>, <<Transition("B", "always", <<>>)>>),
                       Node("B", FALSE, {}, <<>>, <<Transition("A", "always", <<>>)>>)>>)

\* the only transition of A names a node that is not declared
DanglingConfig ==
    GraphConfig("A", <<Node("A", FALSE, {}, <<>>, <<Transition("ghost", "always", <<>>)>>),
                       Node("B", FALSE, {}, <<>>, <<>>)>>)

\* A routes by the model among B and general_support, with a keyword transition behind
RoutingConfig ==
    GraphConfig("A", <<Node("A", FALSE, {}, <<>>,
                            <<Transition("C", "keyword", <<"billing">>),
                              Transition("B", "llm_routing", <<>>),
                              Transition("general_support", "llm_routing", <<>>)>>),
                       Node("B", FALSE, {}, <<>>, <<>>),
                       Node("C", FALSE, {}, <<>>, <<>>),
                       Node("general_support", FALSE, {}, <<>>, <<>>)>>)

\* A routes by the model among B and C, no candidate mentions general or other; an
\* unconditional transition to D stands behind
RoutingPlainConfig ==
    GraphConfig("A", <<Node("A", FALSE, {}, <<>>,
                            <<Transition("B", "llm_routing", <<>>),
                              Transition("C", "llm_routing", <<>>),
                              Transition("D", "always", <<>>)>>),
                       Node("B", FALSE, {}, <<>>, <<>>),
                       Node("C", FALSE, {}, <<>>, <<>>),
                       Node("D", FALSE, {}, <<>>, <<>>)>>)

\* the llm_routing and the first always transition of A name undeclared nodes
GhostRoutingConfig ==
    GraphConfig("A", <<Node("A", FALSE, {}, <<>>,
                            <<Transition("ghost", "llm_routing", <<>>),
                              Transition("ghost", "always", <<>>),
                              Transition("B", "keyword", <<"billing">>),
                              Transition("C", "always", <<>>)>>),
                       Node("B", FALSE, {}, <<>>, <<>>),
                       Node("C", FALSE, {}, <<>>, <<>>)>>)

\* entry_node_id names no node
UnknownEntryConfig ==
    GraphConfig("nowhere", <<Node("A", FALSE, {}, <<>>, <<>>)>>)

\* a node list with entries that are not node objects with an id around A and B
MixedNodesConfig ==
    GraphConfig("A", <<DictNoId,
                       Node("A", FALSE, {}, <<>>, <<Transition("B", "always", <<>>)>>),
                       StrEntry(NODE_GARBAGE), StrEntry(NODE_B_JSON),
                       StrEntry(NODE_NO_ID_JSON), NumberEntry>>)

\* a node list without any node object with an id
AllInvalidConfig ==
    GraphConfig("A", <<DictNoId, StrEntry(NODE_GARBAGE), NumberEntry>>)

\* the entry node id stored with its JSON quotes, and with single quotes
QuotedEntryConfig ==
    GraphConfig("\"A\"", <<Node("A", FALSE, {}, <<>>, <<>>)>>)

SingleQuotedEntryConfig ==
    GraphConfig("'A'", <<Node("A", FALSE, {}, <<>>, <<>>)>>)

\* nodes without entry_node_id, and entry_node_id without nodes
NodesWithoutEntryConfig ==
    GraphConfig("", <<Node("A", FALSE, {}, <<>>, <<>>)>>)

EntryWithoutNodesConfig ==
    [GraphConfig("A", <<>>) EXCEPT !.use_rag = TRUE, !.api_tool_ids = <<1>>]

\* configurations whose shape is what the compiler has to cope with
ShapeConfigs ==
    {MixedNodesConfig, AllInvalidConfig, QuotedEntryConfig, SingleQuotedEntryConfig,
     NodesWithoutEntryConfig, EntryWithoutNodesConfig,
     StringNodesConfig("A", NODES_JSON), StringNodesConfig("A", NODES_LITERAL),
     StringNodesConfig("A", NODES_JSON_OBJECT), StringNodesConfig("A", NODES_GARBAGE)}

Configs ==
    {LegacyConfig, SingleToolConfig, TwoToolConfig, RagConfig, KeywordConfig,
     TwoKeywordConfig, ChainConfig, CycleConfig, DanglingConfig, RoutingConfig,
     UnknownEntryConfig, RagChainConfig, RoutingPlainConfig, GhostRoutingConfig}
    \cup ShapeConfigs

\* the API-tool store: rows of api_tools by id
ApiToolName(id) == IF id = 1 THEN "get_available_slots" ELSE "book_appointment"

\* new inbound messages of a chat request
UserTexts ==
    {<<"hello">>, <<"my", "Billing", "question">>, <<"refund", "please">>}

\* persisted chat_messages of the session before the request
StoredSessions ==
    {<<>>,
     <<[role |-> "user", content |-> <<"old", "question">>],
       [role |-> "assistant", content |-> <<"old", "answer">>]>>}

(***************************************************************************)
(* Graph Compiler: _normalize_graph_config, build_graph_from_config        *)
(***************************************************************************)
\* json.loads / ast.literal_eval of a text where the node list is expected: the list,
\* or <<>> when the text parses to no list
json_loads_nodes(text) ==
    [ok |-> text \in {NODES_JSON, NODES_JSON_OBJECT},
     value |-> IF text = NODES_JSON THEN <<BareNode("A")>> ELSE <<>>]

literal_eval_nodes(text) ==
    [ok |-> text \in {NODES_JSON, NODES_JSON_OBJECT, NODES_LITERAL},
     value |-> IF text \in {NODES_JSON, NODES_LITERAL} THEN <<BareNode("A")>> ELSE <<>>]

\* nodes if isinstance(nodes, list) else [] after the two parse attempts
ParseNodesString(text) ==
    IF json_loads_nodes(text).ok THEN json_loads_nodes(text).value
    ELSE IF literal_eval_nodes(text).ok THEN literal_eval_nodes(text).value
    ELSE <<>>

\* entry_node_id with a surrounding pair of double or single quotes removed
UnquoteEntry(entry_node_id) ==
    CASE entry_node_id = "\"A\"" -> "A"
      [] entry_node_id = "'A'"   -> "A"
      [] OTHER                   -> entry_node_id

_normalize_graph_config(config, default_prompt) ==
    IF (Len(config.nodes) > 0 \/ config.nodes_str # "") /\ config.entry_node_id # ""
    THEN [entry_node_id |-> UnquoteEntry(config.entry_node_id),
          nodes |-> IF config.nodes_str # "" THEN ParseNodesString(config.nodes_str)
                    ELSE config.nodes]
    ELSE [entry_node_id |-> "default",
          nodes |-> <<[id |-> "default", system_prompt |-> default_prompt,
                       use_rag |-> config.use_rag, allowed_document_ids |-> {},
                       api_tool_ids |-> config.api_tool_ids, transitions |-> <<>>]>>]

\* the bot's top-level system prompt
BotSystemPrompt == <<"bot prompt">>

\* nodes = {node["id"]: node for node in valid_nodes}, as the set of declared ids
NodeIds(normalized) == {normalized.nodes[i].id : i \in 1..Len(normalized.nodes)}

\* nodes[node_id]; a later node with the same id overwrites an earlier one
NodeById(normalized, id) ==
    LET idx == CHOOSE i \in 1..Len(normalized.nodes) :
                   /\ normalized.nodes[i].id = id
                   /\ \A j \in (i + 1)..Len(normalized.nodes) : normalized.nodes[j].id # id
    IN  normalized.nodes[idx]

\* json.loads of a text entry of the node list
json_loads_node(text) ==
    [ok |-> text \in {NODE_B_JSON, NODE_NO_ID_JSON},
     has_id |-> text = NODE_B_JSON,
     value |-> BareNode("B")]

RECURSIVE valid_nodes(_)
\* the entries that are objects with an id, text entries parsed; the others are dropped
valid_nodes(raw_nodes) ==
    IF raw_nodes = <<>> THEN <<>>
    ELSE LET node == Head(raw_nodes)
         IN  (IF "id" \in DOMAIN node THEN <<node>>
              ELSE IF "str" \in DOMAIN node
                      /\ json_loads_node(node.str).ok /\ json_loads_node(node.str).has_id
                   THEN <<json_loads_node(node.str).value>>
              ELSE <<>>)
             \o valid_nodes(Tail(raw_nodes))

\* the normalized config with its node list reduced to the valid nodes
CompiledConfig(config) ==
    LET normalized == _normalize_graph_config(config, BotSystemPrompt)
    IN  [entry_node_id |-> normalized.entry_node_id, nodes |-> valid_nodes(normalized.nodes)]

\* a compiler that gives up on the first entry it cannot use
build_graph_error_strict(config) ==
    LET raw_nodes == _normalize_graph_config(config, BotSystemPrompt).nodes
        normalized == CompiledConfig(config)
    IN  IF Len(raw_nodes) = 0 THEN <<"No nodes found in graph config">>
        ELSE IF Len(normalized.nodes) < Len(raw_nodes)
             THEN <<"No valid nodes found in graph config">>
        ELSE IF normalized.entry_node_id \notin NodeIds(normalized)
             THEN <<"entry point", normalized.entry_node_id, "is not a node of the graph">>
        ELSE <<>>

\* the text of the exception build_graph_from_config / compile raises, <<>> when none
build_graph_error(config) ==
    LET raw_nodes == _normalize_graph_config(config, BotSystemPrompt).nodes
        normalized == CompiledConfig(config)
    IN  IF Len(raw_nodes) = 0 THEN <<"No nodes found in graph config">>
        ELSE IF Len(normalized.nodes) = 0 THEN <<"No valid nodes found in graph config">>
        ELSE IF normalized.entry_node_id \notin NodeIds(normalized)
             THEN <<"entry point", normalized.entry_node_id, "is not a node of the graph">>
        ELSE <<>>

RECURSIVE ValidTargetsOf(_, _)
\* valid_targets of a node: the targets of its transitions that are declared nodes
ValidTargetsOf(transitions, ids) ==
    IF transitions = <<>> THEN {}
    ELSE (IF Head(transitions).target_node_id \in ids
          THEN {Head(transitions).target_node_id} ELSE {})
         \cup ValidTargetsOf(Tail(transitions), ids)

(***************************************************************************)
(* Tool set and system instruction of a node: _make_node_executor          *)
(***************************************************************************)
\* store, model and HTTP operations of _make_node_executor: the rows of the node's
\* api_tool_ids are read from the API-tool store; the retrieval tool and the adapters
\* are closures that touch their stores only when called
_make_node_executor_io(node_config) ==
    IF Len(node_config.api_tool_ids) > 0
    THEN <<[op |-> "get_api_tools_by_ids", tool_ids |-> node_config.api_tool_ids]>>
    ELSE <<>>

RECURSIVE add_nodes_io(_)
add_nodes_io(nodes) ==
    IF Len(nodes) = 0 THEN <<>>
    ELSE _make_node_executor_io(Head(nodes)) \o add_nodes_io(Tail(nodes))

\* operations made between the call and the return (or raise) of
\* build_graph_from_config: one executor is made per node before the entry point is set
build_graph_io(config) ==
    LET raw_nodes == _normalize_graph_config(config, BotSystemPrompt).nodes
        normalized == CompiledConfig(config)
    IN  IF Len(raw_nodes) = 0 \/ Len(normalized.nodes) = 0 THEN <<>>
        ELSE add_nodes_io(normalized.nodes)

\* tools: the retrieval tool when use_rag, then one adapter per api_tool_ids row
NodeTools(node_config) ==
    (IF node_config.use_rag THEN <<"search_documents">> ELSE <<>>)
    \o [i \in 1..Len(node_config.api_tool_ids) |-> ApiToolName(node_config.api_tool_ids[i])]

ToolNames(tools) == {tools[i] : i \in 1..Len(tools)}

_build_tool_instruction(tools) ==
    IF Len(tools) = 0 THEN <<>> ELSE <<"AVAILABLE TOOLS:">> \o tools

_compose_system_prompt(base_prompt, tool_instruction) ==
    LET base == Strip(base_prompt)
    IN  IF Len(tool_instruction) > 0
        THEN (IF Len(base) > 0 THEN base \o <<"\n\n">> \o tool_instruction ELSE tool_instruction)
        ELSE (IF Len(base) > 0 THEN base ELSE <<"You are a helpful assistant.">>)

NodePrompt(node_config) ==
    _compose_system_prompt(node_config.system_prompt,
                           _build_tool_instruction(NodeTools(node_config)))

(***************************************************************************)
(* Retrieval: vector store, _build_rag_context, search_documents           *)
(***************************************************************************)
\* a Python int and the text str() makes of it: values of different types, never equal
PyInt(n) == <<"int", n>>

PyStr(n) == <<"str", n>>

\* a chunk as add_chunks stored it and search_similar_chunks reads it back: every
\* metadata value went through str() into a TEXT column
StoredChunk(document_id, text) == [document_id |-> PyStr(document_id), text |-> text]

\* what search_similar_chunks can return for any query: chunks with their metadata
RagStores ==
    {<<>>,
     <<StoredChunk(7, "chunk of doc 7"), StoredChunk(8, "chunk of doc 8")>>}

\* a filter that lets every chunk through whatever the allowlist
RECURSIVE FilterAllowedIgnoresAllowlist(_, _)
FilterAllowedIgnoresAllowlist(documents, allowed_set) ==
    IF documents = <<>> THEN <<>>
    ELSE <<Head(documents)>> \o FilterAllowedIgnoresAllowlist(Tail(documents), allowed_set)

\* allowed_set holds the ints of the node config
RECURSIVE FilterAllowed(_, _)
FilterAllowed(documents, allowed_set) ==
    IF documents = <<>> THEN <<>>
    ELSE (IF /\ allowed_set # {}
             /\ Head(documents).document_id \notin {PyInt(a) : a \in allowed_set}
          THEN <<>> ELSE <<Head(documents)>>)
         \o FilterAllowed(Tail(documents), allowed_set)

_build_rag_context(documents, query, allowed_document_ids) ==
    IF Len(query) = 0 THEN <<>>
    ELSE LET results == FilterAllowed(documents, allowed_document_ids)
         IN  IF Len(results) = 0 THEN <<>>
             ELSE <<"RAG context:">> \o [i \in 1..Len(results) |-> results[i].text]

ArgKeys(arguments) == {kv[1] : kv \in arguments}

ArgValue(arguments, key) == (CHOOSE kv \in arguments : kv[1] = key)[2]

\* the retrieval tool; a call without the required query fails schema validation
search_documents(documents, arguments, allowed_document_ids) ==
    LET found == FilterAllowed(documents, allowed_document_ids)
    IN  IF ArgValue(arguments, "query") = "" THEN <<"Please provide a search query.">>
        ELSE IF Len(found) = 0 THEN <<"No relevant documents found.">>
        ELSE [i \in 1..Len(found) |-> found[i].text]

(***************************************************************************)
(* Tool Adapter for HTTP tools: create_api_tool.call_api                   *)
(***************************************************************************)
\* what the HTTP endpoint of a tool does during one request
EndpointBehaviours == {"ok", "timeout", "connect_error", "http_error", "other_error"}

\* the adapter with a timeout handler that returns an empty text
call_api_silent_timeout(tool_name, behaviour) ==
    CASE behaviour = "ok"            -> <<"{\"result\":\"ok\"}">>
      [] behaviour = "timeout"       -> <<>>
      [] behaviour = "connect_error" -> <<"Connection Error:", "Unable to connect.">>
      [] behaviour = "http_error"    -> <<"HTTP Error", "500">>
      [] OTHER                       -> <<"Unexpected error calling API:", "boom">>

call_api(tool_name, behaviour) ==
    CASE behaviour = "ok"            -> <<"{\"result\":\"ok\"}">>
      [] behaviour = "timeout"       -> <<"Timeout Error:", "Request timed out after 10 seconds.">>
      [] behaviour = "connect_error" -> <<"Connection Error:", "Unable to connect.">>
      [] behaviour = "http_error"    -> <<"HTTP Error", "500">>
      [] OTHER                       -> <<"Unexpected error calling API:", "boom">>

\* tool_executor.invoke inside the try of the turn loop: result text of one call.
\* A name outside the tool map yields the executor's invalid-tool text; an exception
\* raised by the tool is caught by the loop and rendered as "Error calling tool".
InvokeTool(tool_call, tools, endpoint, documents, node_config) ==
    IF tool_call.name \notin ToolNames(tools)
    THEN <<tool_call.name, "is not a valid tool, try one of">> \o tools
    ELSE IF tool_call.name = "search_documents"
    THEN (IF "query" \notin ArgKeys(tool_call.arguments)
          THEN <<"Error calling tool", tool_call.name, ":", "query field required">>
          ELSE search_documents(documents, tool_call.arguments,
                                node_config.allowed_document_ids))
    ELSE call_api(tool_call.name, endpoint[tool_call.name])

\* the HumanMessage the loop appends for one executed tool call
ToolReply(tool_call, content) ==
    ToolOriginMessage(<<"Tool", tool_call.name, "replied:">> \o content, tool_call.id)

(***************************************************************************)
(* Language model provider                                                 *)
(***************************************************************************)
\* one outcome of llm.invoke: an exception, or a message with content and
\* (when the provider answers with native structured calls) tool_calls
Response(exc, content, tool_calls) ==
    [exc |-> exc, content |-> content, tool_calls |-> tool_calls]

NativeSlotsCall ==
    [id |-> <<"native-1">>, name |-> "get_available_slots",
     arguments |-> {<<"date", "2025-12-08">>}]

\* behaviours of the model during one request: the set of outcomes it may produce at
\* each invocation
PlainModel ==
    {Response("IndexError", <<>>, <<>>), Response("Exception", <<>>, <<>>),
     Response("none", <<>>, <<>>),
     Response("none", <<"answer">>, <<>>),
     Response("none", <<" ", "about", "Refund", " ">>, <<>>)}

OddModel ==
    {Response("none", <<"{\"foo\":1}">>, <<>>),
     Response("none", <<"[note]", "answer">>, <<>>),
     Response("none", <<"_system_prompt">>, <<>>),
     Response("none", <<"Note:important">>, <<>>),
     Response("none", <<"final", "answer">>, <<>>)}

SlotsModel ==
    {Response("none", <<ENV_SLOTS>>, <<>>),
     Response("none", <<"slots", "found">>, <<>>),
     Response("Exception", <<>>, <<>>),
     Response("none", <<>>, <<NativeSlotsCall>>)}

BookModel ==
    {Response("none", <<"Sure:", ENV_BOOK, " ">>, <<>>),
     Response("none", <<"booked">>, <<>>),
     Response("none", <<>>, <<>>)}

UnknownToolModel ==
    {Response("none", <<ENV_UNKNOWN>>, <<>>),
     Response("none", <<"done">>, <<>>)}

\* a native call beside text that holds an envelope of another tool
NativeModel ==
    {Response("none", <<ENV_BOOK>>, <<NativeSlotsCall>>),
     Response("none", <<"done">>, <<>>)}

PythonCallModel ==
    {Response("none", <<"get_available_slots(date='2025-12-08')">>, <<>>),
     Response("none", <<" ", "done">>, <<>>)}

SearchModel ==
    {Response("none", <<ENV_SEARCH>>, <<>>),
     Response("none", <<"found", "it">>, <<>>)}

SearchNoArgsModel ==
    {Response("none", <<ENV_SEARCH_NOARGS>>, <<>>),
     Response("none", <<"nothing">>, <<>>)}

ModelBehaviours ==
    {PlainModel, OddModel, SlotsModel, BookModel, UnknownToolModel, NativeModel,
     PythonCallModel, SearchModel, SearchNoArgsModel}

\* outcomes of the routing call of _llm_select_next_node
RoutingResponses ==
    {Response("Exception", <<>>, <<>>), Response("none", <<>>, <<>>),
     Response("none", <<" ", "b">>, <<>>),
     Response("none", <<"GENERAL">>, <<>>),
     Response("none", <<"no", "idea">>, <<>>)}

(***************************************************************************)
(* Node Executor: the turn loop of node_runner                             *)
(***************************************************************************)
max_iterations == 10

\* the loop condition written as `iteration <= max_iterations`
LoopConditionOffByOne(i) == i <= max_iterations

\* `while iteration < max_iterations`
LoopCondition(i) == i < max_iterations

\* tool names the loop takes for a booking tool and for a slot-listing tool
BookLike(name) == name \in {"book_appointment"}
SlotsLike(name) == name \in {"get_available_slots"}

\* tool_calls_from_response before enhancement: native calls, else the Response Parser
DetermineToolCalls(response, messages, tools) ==
    IF Len(response.tool_calls) > 0
    THEN [i \in 1..Len(response.tool_calls) |->
             [id |-> response.tool_calls[i].id, name |-> response.tool_calls[i].name,
              arguments |-> response.tool_calls[i].arguments]]
    ELSE _extract_tool_calls(_normalize_content(response.content), messages, tools)

RECURSIVE SlotCallsFor(_, _)
\* the get-slots calls the loop puts in front of booking calls that carry no slot_id
SlotCallsFor(calls, tools) ==
    IF calls = <<>> THEN <<>>
    ELSE LET tool_call == Head(calls)
             args == tool_call.arguments
             slots_tools == SelectSeq(tools, SlotsLike)
         IN  (IF /\ BookLike(tool_call.name) /\ args # {}
                 /\ Len(slots_tools) > 0
                 /\ "slot_id" \notin ArgKeys(args)
                 /\ ({"date", "service_type"} \cap ArgKeys(args)) # {}
              THEN <<[id |-> <<"call_", slots_tools[1]>>, name |-> slots_tools[1],
                      arguments |->
                          {<<k, IF k \in ArgKeys(args) THEN ArgValue(args, k) ELSE "None">> :
                              k \in {"date", "service_type"}}]>>
              ELSE <<>>)
             \o SlotCallsFor(Tail(calls), tools)

EnhanceToolCalls(calls, tools) ==
    IF Len(calls) > 0 /\ Len(tools) > 1 THEN SlotCallsFor(calls, tools) \o calls ELSE calls

\* the message appended for the model's answer: the response object itself
ResponseMessage(response) ==
    [type |-> "ai", content |-> response.content, from_tool |-> FALSE,
     tool_call_id |-> NoId, tool_calls |-> response.tool_calls]

\* the loop body without the break on a plain-text answer: it leaves the loop after
\* the response only on a node without tools
TurnBodyNoAnswerBreak(messages, response, node_config, endpoint, documents) ==
    LET tools == NodeTools(node_config)
        calls == EnhanceToolCalls(DetermineToolCalls(response, messages, tools), tools)
        replies == [i \in 1..Len(calls) |->
                       ToolReply(calls[i],
                                 InvokeTool(calls[i], tools, endpoint, documents, node_config))]
    IN  IF response.exc # "none"
        THEN [messages |-> Append(messages, AIMessage(APOLOGY_ERROR)),
              again |-> FALSE, calls |-> <<>>]
        ELSE IF Len(response.content) = 0
        THEN [messages |-> Append(messages, AIMessage(APOLOGY_EMPTY)),
              again |-> FALSE, calls |-> <<>>]
        ELSE IF Len(tools) = 0
        THEN [messages |-> Append(messages, ResponseMessage(response)),
              again |-> FALSE, calls |-> calls]
        ELSE [messages |-> Append(messages, ResponseMessage(response)) \o replies,
              again |-> TRUE, calls |-> calls]

\* the loop body returning only the messages of this pass instead of the whole list
TurnBodyReturnsNewOnly(messages, response, node_config, endpoint, documents) ==
    LET tools == NodeTools(node_config)
        calls == EnhanceToolCalls(DetermineToolCalls(response, messages, tools), tools)
        replies == [i \in 1..Len(calls) |->
                       ToolReply(calls[i],
                                 InvokeTool(calls[i], tools, endpoint, documents, node_config))]
    IN  IF response.exc # "none"
        THEN [messages |-> Append(messages, AIMessage(APOLOGY_ERROR)),
              again |-> FALSE, calls |-> <<>>]
        ELSE IF Len(response.content) = 0
        THEN [messages |-> Append(messages, AIMessage(APOLOGY_EMPTY)),
              again |-> FALSE, calls |-> <<>>]
        ELSE IF Len(calls) = 0 \/ Len(tools) = 0
        THEN [messages |-> Append(messages, ResponseMessage(response)),
              again |-> FALSE, calls |-> calls]
        ELSE [messages |-> <<ResponseMessage(response)>> \o replies,
              again |-> TRUE, calls |-> calls]

\* the loop body without the check for an empty response
TurnBodyNoEmptyCheck(messages, response, node_config, endpoint, documents) ==
    LET tools == NodeTools(node_config)
        calls == EnhanceToolCalls(DetermineToolCalls(response, messages, tools), tools)
        replies == [i \in 1..Len(calls) |->
                       ToolReply(calls[i],
                                 InvokeTool(calls[i], tools, endpoint, documents, node_config))]
    IN  IF response.exc # "none"
        THEN [messages |-> Append(messages, AIMessage(APOLOGY_ERROR)),
              again |-> FALSE, calls |-> <<>>]
        ELSE IF Len(calls) = 0 \/ Len(tools) = 0
        THEN [messages |-> Append(messages, ResponseMessage(response)),
              again |-> FALSE, calls |-> calls]
        ELSE [messages |-> Append(messages, ResponseMessage(response)) \o replies,
              again |-> TRUE, calls |-> calls]

\* one pass through the body of the while loop: the messages after it and whether the
\* loop goes round again (no break was taken)
TurnBody(messages, response, node_config, endpoint, documents) ==
    LET tools == NodeTools(node_config)
        calls == EnhanceToolCalls(DetermineToolCalls(response, messages, tools), tools)
        replies == [i \in 1..Len(calls) |->
                       ToolReply(calls[i],
                                 InvokeTool(calls[i], tools, endpoint, documents, node_config))]
    IN  IF response.exc # "none"
        THEN [messages |-> Append(messages, AIMessage(APOLOGY_ERROR)),
              again |-> FALSE, calls |-> <<>>]
        ELSE IF Len(response.content) = 0
        THEN [messages |-> Append(messages, AIMessage(APOLOGY_EMPTY)),
              again |-> FALSE, calls |-> <<>>]
        ELSE IF Len(calls) = 0 \/ Len(tools) = 0
        THEN [messages |-> Append(messages, ResponseMessage(response)),
              again |-> FALSE, calls |-> calls]
        ELSE [messages |-> Append(messages, ResponseMessage(response)) \o replies,
              again |-> TRUE, calls |-> calls]

(***************************************************************************)
(* Transition Selector: _transition_matches, _llm_select_next_node,        *)
(* _make_transition_selector.selector                                      *)
(***************************************************************************)
\* the keyword test without lower-casing
KeywordInCaseSensitive(keyword, content) == Contains(keyword, content)

\* keyword.lower() in (message.content or "").lower()
KeywordIn(keyword, content) == Contains(Lower(keyword), Lower(content))

_transition_matches(condition, messages) ==
    LET last_user == _get_last_user_index(messages)
        last_ai == _get_last_ai_index(messages)
    IN  CASE condition.type = "always" -> TRUE
          [] condition.type = "keyword" ->
                /\ Len(condition.value) > 0
                /\ \/ last_user # 0 /\ KeywordIn(condition.value, messages[last_user].content)
                   \/ last_ai # 0 /\ KeywordIn(condition.value, messages[last_ai].content)
          [] OTHER -> FALSE

RECURSIVE LinearScan(_, _, _)
\* the for loop of selector: first transition with a declared target that matches
LinearScan(transitions, ids, messages) ==
    IF transitions = <<>> THEN "end"
    ELSE IF /\ Head(transitions).target_node_id \in ids
            /\ _transition_matches(Head(transitions), messages)
         THEN Head(transitions).target_node_id
    ELSE LinearScan(Tail(transitions), ids, messages)

IsLlmRouting(transition) == transition.type = "llm_routing"

\* node ids whose lower-cased text contains "general" or "other"
MentionsGeneralOrOther(id) == id \in {"general_support", "other_topics"}

\* available_nodes built without looking the targets up among the declared nodes
TargetsUnchecked(transitions, ids) ==
    [k \in 1..Len(transitions) |-> transitions[k].target_node_id]

RECURSIVE DeclaredTargets(_, _)
\* available_nodes: targets of the given transitions that are declared, in order
DeclaredTargets(transitions, ids) ==
    IF transitions = <<>> THEN <<>>
    ELSE (IF Head(transitions).target_node_id \in ids
          THEN <<Head(transitions).target_node_id>> ELSE <<>>)
         \o DeclaredTargets(Tail(transitions), ids)

\* the routing call giving up with None when the model raises or answers nothing
_llm_select_next_node_gives_up(messages, transitions, ids, response) ==
    LET available_nodes == DeclaredTargets(transitions, ids)
        selected_id == Lower(_normalize_content(response.content))
        exact == SelectSeq(available_nodes, LAMBDA id : selected_id = <<LowerTok(id)>>)
        general == SelectSeq(available_nodes, MentionsGeneralOrOther)
    IN  IF Len(transitions) = 0 \/ Len(available_nodes) = 0 THEN "None"
        ELSE IF _get_last_user_index(messages) = 0 THEN "None"
        ELSE IF response.exc # "none" \/ Len(response.content) = 0 THEN "None"
        ELSE IF Len(exact) > 0 THEN exact[1]
        ELSE IF selected_id = <<"general">> /\ Len(general) > 0 THEN general[1]
        ELSE available_nodes[1]

\* "None" stands for Python's None
_llm_select_next_node(messages, transitions, ids, response) ==
    LET available_nodes == DeclaredTargets(transitions, ids)
        selected_id == Lower(_normalize_content(response.content))
        exact == SelectSeq(available_nodes, LAMBDA id : selected_id = <<LowerTok(id)>>)
        general == SelectSeq(available_nodes, MentionsGeneralOrOther)
    IN  IF Len(transitions) = 0 \/ Len(available_nodes) = 0 THEN "None"
        ELSE IF _get_last_user_index(messages) = 0 THEN "None"
        ELSE IF response.exc # "none" \/ Len(response.content) = 0 THEN available_nodes[1]
        ELSE IF Len(exact) > 0 THEN exact[1]
        ELSE IF selected_id = <<"general">> /\ Len(general) > 0 THEN general[1]
        ELSE available_nodes[1]

\* the selector reaches self.llm.invoke: the node has llm_routing transitions, one of
\* them names a declared node, and the messages hold a real user message
RoutingCallMade(node_config, ids, messages) ==
    /\ Len(DeclaredTargets(SelectSeq(node_config.transitions, IsLlmRouting), ids)) > 0
    /\ _get_last_user_index(messages) # 0

\* the selector running the linear scan first and the routing model only when the
\* scan finds nothing
selector_scan_first(node_config, ids, messages, routing_response) ==
    LET llm_routing_transitions == SelectSeq(node_config.transitions, IsLlmRouting)
        selected_node == _llm_select_next_node(messages, llm_routing_transitions, ids,
                                               routing_response)
        scanned == LinearScan(node_config.transitions, ids, messages)
    IN  IF scanned # "end" THEN scanned
        ELSE IF Len(llm_routing_transitions) > 0 /\ selected_node # "None"
        THEN selected_node
        ELSE "end"

selector(node_config, ids, messages, routing_response) ==
    LET llm_routing_transitions == SelectSeq(node_config.transitions, IsLlmRouting)
        selected_node == _llm_select_next_node(messages, llm_routing_transitions, ids,
                                               routing_response)
    IN  IF Len(llm_routing_transitions) > 0 /\ selected_node # "None"
        THEN selected_node
        ELSE LinearScan(node_config.transitions, ids, messages)

(***************************************************************************)
(* Conversation Driver: reply extraction of process_message                *)
(***************************************************************************)
RECURSIVE LastPlainAnswer(_)
\* the reversed scan: content of the last AIMessage whose normalized content is not
\* empty, does not start with { or [ and yields no tool call; <<>> when there is none
LastPlainAnswer(final_messages) ==
    IF final_messages = <<>> THEN <<>>
    ELSE LET msg == Last(final_messages)
             content == _normalize_content(msg.content)
         IN  IF /\ msg.type = "ai"
                /\ Len(content) > 0
                /\ content[1] \notin BracketTokens
                /\ Len(_extract_tool_calls(content, <<>>, <<>>)) = 0
             THEN content
             ELSE LastPlainAnswer(SubSeq(final_messages, 1, Len(final_messages) - 1))

ExtractReply(final_messages) ==
    LET last_ai_message == LastPlainAnswer(final_messages)
        last_ai == _get_last_ai_index(final_messages)
        normalized == IF last_ai = 0 THEN <<>>
                      ELSE _normalize_content(final_messages[last_ai].content)
    IN  IF Len(last_ai_message) > 0 THEN last_ai_message
        ELSE IF /\ last_ai # 0 /\ Len(final_messages[last_ai].content) > 0
                /\ Len(normalized) > 0
                /\ Len(_extract_tool_calls(normalized, <<>>, <<>>)) = 0
             THEN normalized
        ELSE FALLBACK_REPLY

\* messages built from history plus the new message (other roles are dropped)
RECURSIVE HistoryMessages(_)
HistoryMessages(history) ==
    IF history = <<>> THEN <<>>
    ELSE (CASE Head(history).role = "user" -> <<HumanMessage(Head(history).content)>>
            [] Head(history).role = "assistant" -> <<AIMessage(Head(history).content)>>
            [] OTHER -> <<>>)
         \o HistoryMessages(Tail(history))

(***************************************************************************)
(* State                                                                   *)
(***************************************************************************)
VARIABLES
    chat_messages,  \* persisted rows of the chat session: [role, content]
    message,        \* chat_data.message of the request
    config,         \* bot["config"]
    model,          \* behaviour of the language model during the request
    endpoint,       \* behaviour of each HTTP tool endpoint during the request
    documents,      \* what the vector store returns during the request
    pc,             \* position of the request
    history,        \* history handed to process_message
    messages,       \* state["messages"] of the graph run
    cur,            \* node being executed / just executed
    iteration,      \* iteration counter of the turn loop
    visited,        \* node ids in order of execution
    entry_messages, \* state["messages"] the current node executor received
    llm_input,      \* llm_messages of the latest model invocation of the turn loop
    llm_calls,      \* model invocations of the current node execution
    last_response,  \* outcome of the latest model invocation of the turn loop
    last_calls,     \* tool calls executed in the latest pass of the loop
    turn_base,      \* messages at the start of the latest pass of the loop
    returned,       \* state["messages"] returned by each finished node execution
    routed,         \* latest edge decision: a node id, "end", or "" before any
    reply,          \* value returned by process_message
    raised,         \* text of the exception that left process_message, <<>> if none
    requests,       \* per request id, the run of a request served concurrently
    parser,         \* the run of _extract_tool_calls on its own: <<>> or one record
    routing,        \* outcome of the routing model call of the latest edge decision:
                    \* <<response>>, or <<>> when the selector made no call
    compile_io,     \* store, model and HTTP operations made by build_graph_from_config
    session         \* one chat session served by two send_message requests: <<>> or
                    \* one record of the persisted rows and the position of each request

vars == <<chat_messages, message, config, model, endpoint, documents, pc, history,
          messages, cur, iteration, visited, entry_messages, llm_input, llm_calls,
          last_response, last_calls, turn_base, returned, routed, reply, raised,
          requests, parser, routing, compile_io, session>>

env == <<message, config, model, endpoint, documents, requests, parser, session>>

Normalized == CompiledConfig(config)

CurNode == NodeById(Normalized, cur)

ToolConfigs == {SingleToolConfig, TwoToolConfig}

AllOk == [t \in {"get_available_slots", "book_appointment"} |-> "ok"]

Endpoints ==
    {[t \in {"get_available_slots", "book_appointment"} |-> b] : b \in EndpointBehaviours}
    \cup {[AllOk EXCEPT !["get_available_slots"] = "timeout"],
          [AllOk EXCEPT !["book_appointment"] = "http_error"]}

\* which environments are explored with which configuration
Explored(c, m, e, d) ==
    /\ m \in {SlotsModel, BookModel, UnknownToolModel, NativeModel, PythonCallModel}
           => c \in ToolConfigs \cup {LegacyConfig}
    /\ m \in {SearchModel, SearchNoArgsModel} => c \in {RagConfig, RagChainConfig}
    /\ e # AllOk => c \in ToolConfigs /\ m \in {SlotsModel, BookModel}
    /\ d # <<>> => c \in {RagConfig, RagChainConfig}
    /\ c = RagChainConfig => m \in {SearchModel, PlainModel}
    /\ c \in ShapeConfigs \cup {RoutingPlainConfig, GhostRoutingConfig} => m = PlainModel

NoResponse == Response("none", <<>>, <<>>)

Init ==
    /\ chat_messages \in StoredSessions
    /\ message \in UserTexts
    /\ config \in Configs
    /\ model \in ModelBehaviours
    /\ endpoint \in Endpoints
    /\ documents \in RagStores
    /\ Explored(config, model, endpoint, documents)
    /\ pc = "request"
    /\ history = <<>>
    /\ messages = <<>>
    /\ cur = ""
    /\ iteration = 0
    /\ visited = <<>>
    /\ entry_messages = <<>>
    /\ llm_input = <<>>
    /\ llm_calls = 0
    /\ last_response = NoResponse
    /\ last_calls = <<>>
    /\ turn_base = <<>>
    /\ returned = <<>>
    /\ routed = ""
    /\ reply = <<>>
    /\ raised = <<>>
    /\ requests = <<>>
    /\ parser = <<>>
    /\ routing = <<>>
    /\ compile_io = <<>>
    /\ session = <<>>

(***************************************************************************)
(* send_message: persist the user message, read the history                *)
(***************************************************************************)
SendMessage ==
    /\ pc = "request"
    /\ LET stored == Append(chat_messages, [role |-> "user", content |-> message])
       IN  /\ chat_messages' = stored
           /\ history' = SubSeq(stored, 1, Len(stored) - 1)
    /\ pc' = "process"
    /\ UNCHANGED <<env, routing, compile_io, messages, cur, iteration, visited, entry_messages, llm_input,
                   llm_calls, last_response, last_calls, turn_base, returned, routed, reply, raised>>

(***************************************************************************)
(* process_message: compile the graph, seed the run                        *)
(***************************************************************************)
\* the graph cannot be built: the exception leaves process_message and send_message
\* persists its text before re-raising
BuildGraphFails ==
    /\ pc = "process"
    /\ build_graph_error(config) # <<>>
    /\ raised' = build_graph_error(config)
    /\ chat_messages' = Append(chat_messages,
                               [role |-> "assistant",
                                content |-> <<"Error:">> \o build_graph_error(config)])
    /\ pc' = "failed"
    /\ compile_io' = build_graph_io(config)
    /\ UNCHANGED <<env, routing, history, messages, cur, iteration, visited, entry_messages,
                   llm_input, llm_calls, last_response, last_calls, turn_base, returned,
                   routed, reply>>

StartRun ==
    /\ pc = "process"
    /\ build_graph_error(config) = <<>>
    /\ messages' = Append(HistoryMessages(history), HumanMessage(message))
    /\ cur' = Normalized.entry_node_id
    /\ pc' = "enter"
    /\ compile_io' = build_graph_io(config)
    /\ UNCHANGED <<env, routing, chat_messages, history, iteration, visited, entry_messages,
                   llm_input, llm_calls, last_response, last_calls, turn_base, returned,
                   routed, reply, raised>>

(***************************************************************************)
(* node_runner: entry (automatic RAG context), then the turn loop          *)
(***************************************************************************)
EnterNode ==
    /\ pc = "enter"
    /\ Len(visited) < MaxHops
    /\ LET rag_context == _build_rag_context(documents, _extract_user_query(messages),
                                             CurNode.allowed_document_ids)
       IN  messages' = IF CurNode.use_rag /\ Len(rag_context) > 0
                       THEN Append(messages,
                                   ToolOriginMessage(rag_context, <<"auto_rag_context">>))
                       ELSE messages
    /\ entry_messages' = messages
    /\ visited' = Append(visited, cur)
    /\ iteration' = 0
    /\ llm_calls' = 0
    /\ pc' = "loop"
    /\ UNCHANGED <<env, routing, compile_io, chat_messages, history, cur, llm_input, last_response,
                   last_calls, turn_base, returned, routed, reply, raised>>

\* one pass of `while iteration < max_iterations`; when the pass ends the loop the
\* executor returns its state and the graph moves to the node's outgoing edge
ModelTurn ==
    /\ pc = "loop"
    /\ LoopCondition(iteration)
    /\ \E response \in model :
        /\ Len(response.tool_calls) > 0 => Len(NodeTools(CurNode)) > 0
        /\ LET turn == TurnBody(messages, response, CurNode, endpoint, documents)
           IN  /\ llm_input' = <<SystemMessage(NodePrompt(CurNode))>> \o messages
               /\ messages' = turn.messages
               /\ last_calls' = IF turn.again THEN turn.calls ELSE <<>>
               /\ pc' = IF turn.again /\ LoopCondition(iteration + 1)
                        THEN "loop" ELSE "route"
               /\ returned' = IF turn.again /\ LoopCondition(iteration + 1)
                              THEN returned ELSE Append(returned, turn.messages)
        /\ last_response' = response
    /\ turn_base' = messages
    /\ iteration' = iteration + 1
    /\ llm_calls' = llm_calls + 1
    /\ UNCHANGED <<env, routing, compile_io, chat_messages, history, cur, visited, entry_messages, routed,
                   reply, raised>>

(***************************************************************************)
(* Edges of the compiled graph                                             *)
(***************************************************************************)
\* a default edge that falls through to the next declared node instead of END
EdgeFallsThrough ==
    /\ pc = "route"
    /\ ValidTargetsOf(CurNode.transitions, NodeIds(Normalized)) = {}
    /\ LET idx == CHOOSE i \in 1..Len(Normalized.nodes) : Normalized.nodes[i].id = cur
       IN  IF idx < Len(Normalized.nodes)
           THEN /\ routed' = Normalized.nodes[idx + 1].id
                /\ cur' = Normalized.nodes[idx + 1].id
                /\ pc' = "enter"
           ELSE /\ routed' = "end"
                /\ cur' = cur
                /\ pc' = "extract"
    /\ routing' = <<>>
    /\ UNCHANGED <<env, compile_io, chat_messages, history, messages, iteration, visited,
                   entry_messages, llm_input, llm_calls, last_response, last_calls,
                   turn_base, returned, reply, raised>>

\* workflow.add_edge(node_id, END): the node has no transition to a declared node
EdgeToEnd ==
    /\ pc = "route"
    /\ ValidTargetsOf(CurNode.transitions, NodeIds(Normalized)) = {}
    /\ routed' = "end"
    /\ pc' = "extract"
    /\ routing' = <<>>
    /\ UNCHANGED <<env, compile_io, chat_messages, history, messages, cur, iteration, visited,
                   entry_messages, llm_input, llm_calls, last_response, last_calls,
                   turn_base, returned, reply, raised>>

\* workflow.add_conditional_edges(node_id, selector, mapping)
ConditionalEdge ==
    /\ pc = "route"
    /\ ValidTargetsOf(CurNode.transitions, NodeIds(Normalized)) # {}
    /\ \E routing_response \in RoutingResponses :
        LET next == selector(CurNode, NodeIds(Normalized), messages, routing_response)
        IN  /\ routed' = next
            /\ routing' = IF RoutingCallMade(CurNode, NodeIds(Normalized), messages)
                          THEN <<routing_response>> ELSE <<>>
            /\ IF next = "end"
               THEN pc' = "extract" /\ cur' = cur
               ELSE pc' = "enter" /\ cur' = next
    /\ UNCHANGED <<env, compile_io, chat_messages, history, messages, iteration, visited,
                   entry_messages, llm_input, llm_calls, last_response, last_calls,
                   turn_base, returned, reply, raised>>

(***************************************************************************)
(* process_message returns; send_message persists the assistant message    *)
(***************************************************************************)
Reply ==
    /\ pc = "extract"
    /\ reply' = ExtractReply(messages)
    /\ chat_messages' = Append(chat_messages,
                               [role |-> "assistant", content |-> ExtractReply(messages)])
    /\ pc' = "done"
    /\ UNCHANGED <<env, routing, compile_io, history, messages, cur, iteration, visited, entry_messages,
                   llm_input, llm_calls, last_response, last_calls, turn_base, returned,
                   routed, raised>>

Next ==
    \/ SendMessage
    \/ BuildGraphFails
    \/ StartRun
    \/ EnterNode
    \/ ModelTurn
    \/ EdgeToEnd
    \/ ConditionalEdge
    \/ Reply

Spec == Init /\ [][Next]_vars

(***************************************************************************)
(* Two chat requests served by the one langchain_service instance          *)
(***************************************************************************)
RequestIds == {1, 2}

\* what each of the two requests asks, of which bot, after which history
RequestMessage(r) == IF r = 1 THEN <<"hello">> ELSE <<"my", "Billing", "question">>

RequestConfig(r) == IF r = 1 THEN SingleToolConfig ELSE KeywordConfig

RequestHistory(r) ==
    IF r = 1 THEN <<[role |-> "user", content |-> <<"old", "question">>],
                    [role |-> "assistant", content |-> <<"old", "answer">>]>>
    ELSE <<>>

\* what self.llm answers to the calls of each request
RequestModel(r) ==
    IF r = 1 THEN {Response("none", <<ENV_SLOTS>>, <<>>),
                   Response("none", <<"slots", "for", "one">>, <<>>)}
    ELSE {Response("none", <<"billing", "answer", "for", "two">>, <<>>),
          Response("none", <<"ANSWER", "for", "two">>, <<>>)}

\* every node executor reading one message list kept on the service instance
RequestStateShared(r) == requests[1]

\* state["messages"] and the position of the graph run of request r: each app.invoke
\* has its own state dict and each node_runner copies the list it receives
RequestState(r) == requests[r]

RequestNode(r) == NodeById(CompiledConfig(RequestConfig(r)), requests[r].cur)

ConcInit ==
    /\ requests = [r \in RequestIds |->
                      [pc |-> "process", messages |-> <<>>, cur |-> "", iteration |-> 0,
                       visited |-> <<>>, reply |-> <<>>]]
    /\ endpoint \in Endpoints
    /\ chat_messages = <<>> /\ message = <<>> /\ config = LegacyConfig
    /\ model = PlainModel /\ documents = <<>>
    /\ pc = "done" /\ history = <<>> /\ messages = <<>> /\ cur = ""
    /\ iteration = 0 /\ visited = <<>> /\ entry_messages = <<>> /\ llm_input = <<>>
    /\ llm_calls = 0 /\ last_response = NoResponse /\ last_calls = <<>>
    /\ turn_base = <<>> /\ returned = <<>> /\ routed = "" /\ reply = <<>>
    /\ raised = <<>>
    /\ parser = <<>>
    /\ routing = <<>>
    /\ compile_io = <<>>
    /\ session = <<>>

single == <<chat_messages, message, config, model, endpoint, documents, pc, history,
            messages, cur, iteration, visited, entry_messages, llm_input, llm_calls,
            last_response, last_calls, turn_base, returned, routed, reply, raised,
            routing, compile_io>>

\* process_message of request r compiles its graph and seeds its message list
ConcStartRun(r) ==
    /\ requests[r].pc = "process"
    /\ build_graph_error(RequestConfig(r)) = <<>>
    /\ requests' = [requests EXCEPT
           ![r].messages = Append(HistoryMessages(RequestHistory(r)),
                                  HumanMessage(RequestMessage(r))),
           ![r].cur = CompiledConfig(RequestConfig(r)).entry_node_id,
           ![r].pc = "enter"]
    /\ UNCHANGED <<single, parser, session>>

\* node_runner of request r starts on the state of its graph run
ConcEnterNode(r) ==
    /\ requests[r].pc = "enter"
    /\ Len(requests[r].visited) < MaxHops
    /\ requests' = [requests EXCEPT
           ![r].messages = RequestState(r).messages,
           ![r].visited = Append(@, requests[r].cur),
           ![r].iteration = 0,
           ![r].pc = "loop"]
    /\ UNCHANGED <<single, parser, session>>

\* one pass of the turn loop of request r
ConcModelTurn(r) ==
    /\ requests[r].pc = "loop"
    /\ LoopCondition(requests[r].iteration)
    /\ \E response \in RequestModel(r) :
        LET turn == TurnBody(requests[r].messages, response, RequestNode(r), endpoint,
                             documents)
        IN  requests' = [requests EXCEPT
                ![r].messages = turn.messages,
                ![r].iteration = @ + 1,
                ![r].pc = IF turn.again /\ LoopCondition(requests[r].iteration + 1)
                          THEN "loop" ELSE "route"]
    /\ UNCHANGED <<single, parser, session>>

\* the outgoing edge of the node of request r
ConcEdge(r) ==
    /\ requests[r].pc = "route"
    /\ LET ids == NodeIds(CompiledConfig(RequestConfig(r)))
           next == IF ValidTargetsOf(RequestNode(r).transitions, ids) = {} THEN "end"
                   ELSE selector(RequestNode(r), ids, requests[r].messages, NoResponse)
       IN  requests' = [requests EXCEPT
               ![r].cur = IF next = "end" THEN @ ELSE next,
               ![r].pc = IF next = "end" THEN "extract" ELSE "enter"]
    /\ UNCHANGED <<single, parser, session>>

\* process_message of request r returns its reply
ConcReply(r) ==
    /\ requests[r].pc = "extract"
    /\ requests' = [requests EXCEPT ![r].reply = ExtractReply(requests[r].messages),
                                    ![r].pc = "done"]
    /\ UNCHANGED <<single, parser, session>>

ConcNext ==
    \E r \in RequestIds :
        \/ ConcStartRun(r)
        \/ ConcEnterNode(r)
        \/ ConcModelTurn(r)
        \/ ConcEdge(r)
        \/ ConcReply(r)

ConcSpec == ConcInit /\ [][ConcNext]_vars

(***************************************************************************)
(* _extract_tool_calls on texts of bounded length                          *)
(***************************************************************************)
\* pieces of text the model output is made of: the canonical envelope, code fences,
\* prose words, white space, call-shaped and object-shaped pieces
\* the lines that open and close a fenced code block; <fence> stands for the three
\* backquote characters
FENCE_JSON == "<fence>json"
FENCE == "<fence>"

ParserVocabulary ==
    {ENV_T, FENCE_JSON, FENCE, "Sure,", "now.", " ", "Note:important",
     "get_available_slots(date='2025-12-08')", SUPERSCRIPT_CALL, "{\"foo\":1}", "[note]",
     ENV_SEARCH_NOARGS, RESULT_SEARCH}

ParserTexts == UNION {[1..n -> ParserVocabulary] : n \in 0..MaxLen}

\* conversation contexts and tool lists the parser is handed: no context; a dated
\* user message under a dated tool result; a dated user message under an undated
\* one; one user message with both spellings of a date
ParserInputs ==
    {[context |-> <<>>, tools |-> <<>>],
     [context |-> <<HumanMessage(<<"on", "08.12.2025">>),
                    ToolOriginMessage(<<"free", "2025-12-01">>, <<"call_", "x">>)>>,
      tools |-> <<"search_documents">>],
     [context |-> <<HumanMessage(<<"on", "2025-12-01">>), HumanMessage(<<"hello">>)>>,
      tools |-> <<"get_available_slots", "search_documents">>],
     [context |-> <<HumanMessage(<<"08.12.2025", "or", "2025-12-01">>)>>,
      tools |-> <<"get_available_slots">>]}

ParserInit ==
    /\ \E text \in ParserTexts, input \in ParserInputs :
           parser = <<[content |-> text, context |-> input.context, tools |-> input.tools,
                       pc |-> "text", calls |-> <<>>, error |-> <<>>]>>
    /\ requests = <<>>
    /\ endpoint = AllOk
    /\ chat_messages = <<>> /\ message = <<>> /\ config = LegacyConfig
    /\ model = PlainModel /\ documents = <<>>
    /\ pc = "done" /\ history = <<>> /\ messages = <<>> /\ cur = ""
    /\ iteration = 0 /\ visited = <<>> /\ entry_messages = <<>> /\ llm_input = <<>>
    /\ llm_calls = 0 /\ last_response = NoResponse /\ last_calls = <<>>
    /\ turn_base = <<>> /\ returned = <<>> /\ routed = "" /\ reply = <<>>
    /\ raised = <<>>
    /\ routing = <<>>
    /\ compile_io = <<>>
    /\ session = <<>>

\* the parser returns its list of tool calls
ExtractReturns ==
    /\ parser[1].pc = "text"
    /\ _extract_tool_calls_raises(parser[1].content) = <<>>
    /\ parser' = <<[parser[1] EXCEPT
                       !.calls = _extract_tool_calls(parser[1].content, parser[1].context,
                                                     parser[1].tools),
                       !.pc = "returned"]>>
    /\ UNCHANGED <<single, requests, session>>

\* an exception leaves the parser
ExtractRaises ==
    /\ parser[1].pc = "text"
    /\ _extract_tool_calls_raises(parser[1].content) # <<>>
    /\ parser' = <<[parser[1] EXCEPT
                       !.error = _extract_tool_calls_raises(parser[1].content),
                       !.pc = "raised"]>>
    /\ UNCHANGED <<single, requests, session>>

ParserNext == ExtractReturns \/ ExtractRaises

ParserSpec == ParserInit /\ [][ParserNext]_vars

(***************************************************************************)
(* Two send_message requests on one chat session                           *)
(***************************************************************************)
\* a persisted row of chat_messages; by is the request whose send_message inserted
\* it, 0 for a row of an earlier request
Row(role, content, by) == [role |-> role, content |-> content, by |-> by]

\* the session's rows before the two requests
SessionRows ==
    {<<>>,
     <<Row("user", <<"old", "question">>, 0), Row("assistant", <<"old", "answer">>, 0)>>}

\* {"role": msg["role"], "content": msg["content"]} for msg in the rows
RoleContent(rows) ==
    [i \in 1..Len(rows) |-> [role |-> rows[i].role, content |-> rows[i].content]]

\* history = [... for msg in history_messages[:-1]]
HistoryOf(history_messages) ==
    RoleContent(SubSeq(history_messages, 1, Len(history_messages) - 1))

\* process_message on the legacy single-node graph, the model answering in one pass
ProcessMessage(new_message, history_dicts, response) ==
    LET initial == Append(HistoryMessages(history_dicts), HumanMessage(new_message))
        node == CompiledConfig(LegacyConfig).nodes[1]
        final == TurnBody(initial, response, node, AllOk, <<>>).messages
    IN  [initial |-> initial, reply |-> ExtractReply(final)]

SessionAnswers == {Response("none", <<"answer">>, <<>>), Response("none", <<>>, <<>>)}

SessionInit ==
    /\ \E rows \in SessionRows, texts \in [RequestIds -> UserTexts] :
           session = <<[rows |-> rows,
                        req |-> [r \in RequestIds |->
                                    [pc |-> "request", message |-> texts[r],
                                     history_messages |-> <<>>, history |-> <<>>,
                                     initial |-> <<>>, reply |-> <<>>]]]>>
    /\ requests = <<>> /\ parser = <<>>
    /\ endpoint = AllOk
    /\ chat_messages = <<>> /\ message = <<>> /\ config = LegacyConfig
    /\ model = PlainModel /\ documents = <<>>
    /\ pc = "done" /\ history = <<>> /\ messages = <<>> /\ cur = ""
    /\ iteration = 0 /\ visited = <<>> /\ entry_messages = <<>> /\ llm_input = <<>>
    /\ llm_calls = 0 /\ last_response = NoResponse /\ last_calls = <<>>
    /\ turn_base = <<>> /\ returned = <<>> /\ routed = "" /\ reply = <<>>
    /\ raised = <<>>
    /\ routing = <<>>
    /\ compile_io = <<>>

\* repo.insert_chat_message(role="user") and db.commit()
InsertUserMessage(r) ==
    /\ session[1].req[r].pc = "request"
    /\ session' = <<[session[1] EXCEPT
                        !.rows = Append(@, Row("user", session[1].req[r].message, r)),
                        !.req[r].pc = "inserted"]>>
    /\ UNCHANGED <<single, requests, parser>>

\* repo.list_messages_for_session and the history built from all rows but the last
ListMessages(r) ==
    /\ session[1].req[r].pc = "inserted"
    /\ session' = <<[session[1] EXCEPT
                        !.req[r].history_messages = session[1].rows,
                        !.req[r].history = HistoryOf(session[1].rows),
                        !.req[r].pc = "process"]>>
    /\ UNCHANGED <<single, requests, parser>>

\* langchain_service.process_message
Process(r) ==
    /\ session[1].req[r].pc = "process"
    /\ \E response \in SessionAnswers :
        LET run == ProcessMessage(session[1].req[r].message, session[1].req[r].history,
                                  response)
        IN  session' = <<[session[1] EXCEPT
                             !.req[r].initial = run.initial,
                             !.req[r].reply = run.reply,
                             !.req[r].pc = "reply"]>>
    /\ UNCHANGED <<single, requests, parser>>

\* repo.insert_chat_message(role="assistant") and db.commit()
InsertAssistantMessage(r) ==
    /\ session[1].req[r].pc = "reply"
    /\ session' = <<[session[1] EXCEPT
                        !.rows = Append(@, Row("assistant", session[1].req[r].reply, r)),
                        !.req[r].pc = "done"]>>
    /\ UNCHANGED <<single, requests, parser>>

SessionNext ==
    \E r \in RequestIds :
        \/ InsertUserMessage(r)
        \/ ListMessages(r)
        \/ Process(r)
        \/ InsertAssistantMessage(r)

SessionSpec == SessionInit /\ [][SessionNext]_vars

(***************************************************************************)
(* Properties                                                              *)
(***************************************************************************)
IsPrefix(s, t) == Len(s) <= Len(t) /\ SubSeq(t, 1, Len(s)) = s

Range(s) == {s[i] : i \in 1..Len(s)}

\* the message sequence process_message seeds the run with
InitialMessages == Append(HistoryMessages(history), HumanMessage(message))

InNode == pc \in {"loop", "route"}

\* C1: during a graph run the message sequence only grows by appending: what a node
\* executor received is a prefix of what it holds and returns, and every model
\* invocation gets the system instruction followed by the whole current sequence
\* (history, new message, earlier responses and tool results, in order of appending).
C1_AppendOnlyFullContext ==
    InNode =>
        /\ IsPrefix(InitialMessages, entry_messages)
        /\ IsPrefix(entry_messages, messages)
        /\ pc = "route" => Last(returned) = messages
        /\ llm_calls > 0 =>
              /\ llm_input = <<SystemMessage(NodePrompt(CurNode))>> \o turn_base
              /\ IsPrefix(entry_messages, turn_base)
              /\ IsPrefix(turn_base, messages)
              /\ Len(messages) > Len(turn_base)

\* the model is invoked again after tool results: its input holds history, the new
\* message, its earlier response and the tool result
C1_Witness ==
    /\ pc = "loop" /\ llm_calls >= 2 /\ Len(history) > 0
    /\ \E i \in (Len(entry_messages) + 1)..Len(llm_input) :
           llm_input[i].from_tool /\ llm_input[i - 1].type = "ai"

\* C2: one execution of a node invokes the model at most 10 times and then returns,
\* whatever the model answers.
C2_AtMostTenModelCalls ==
    /\ llm_calls <= 10
    /\ pc = "loop" => llm_calls < 10

\* ten invocations that each yielded a tool call, then the executor returned
C2_Witness ==
    /\ pc = "route" /\ llm_calls = 10 /\ Len(last_calls) > 0
    /\ Last(returned) = messages

ModelFailed(response) == response.exc # "none" \/ Len(response.content) = 0

\* C3: when a model invocation raises or returns an empty response, the executor
\* appends exactly one fixed apology assistant message, leaves the loop without another
\* model or tool invocation and returns normally; no exception reaches process's caller.
C3_ModelFailureApology ==
    /\ (InNode /\ llm_calls > 0 /\ ModelFailed(last_response)) =>
          /\ pc = "route"
          /\ raised = <<>>
          /\ Len(last_calls) = 0
          /\ messages = Append(turn_base,
                               AIMessage(IF last_response.exc # "none"
                                         THEN APOLOGY_ERROR ELSE APOLOGY_EMPTY))
          /\ Last(returned) = messages
    /\ pc = "failed" => Len(visited) = 0
    /\ Len(visited) > 0 => raised = <<>>

\* the model raises after a round of tool calls
C3_Witness ==
    /\ pc = "route" /\ llm_calls >= 2 /\ last_response.exc = "Exception"
    /\ Last(messages).content = APOLOGY_ERROR

\* the model answers with empty content
C3_WitnessEmpty ==
    /\ pc = "route" /\ llm_calls >= 1 /\ last_response = NoResponse
    /\ Last(messages).content = APOLOGY_EMPTY

\* texts the model produced during this request, as the reader sees them
GeneratedTexts == {Strip(response.content) : response \in model}

\* assistant texts persisted by earlier requests of the session
EarlierAnswers ==
    {history[i].content : i \in {j \in 1..Len(history) : history[j].role = "assistant"}}

FixedFallbacks == {APOLOGY_ERROR, APOLOGY_EMPTY, FALLBACK_REPLY}

\* rows persisted for this request after its own user row
OwnAssistantRows ==
    {i \in (Len(history) + 2)..Len(chat_messages) : chat_messages[i].role = "assistant"}

\* C4: the assistant text the end user sees for a chat request (the reply of process and
\* the assistant message persisted for it) is text generated by the model or one of the
\* fixed fallback strings; it never carries the text of an internal exception.
C4_OnlyAnswerOrFixedFallback ==
    /\ pc # "request" =>
           \A i \in OwnAssistantRows :
               chat_messages[i].content
                   \in GeneratedTexts \cup EarlierAnswers \cup FixedFallbacks
    /\ pc = "done" => reply \in GeneratedTexts \cup EarlierAnswers \cup FixedFallbacks

(***************************************************************************)
(* Shape of a graph config                                                 *)
(***************************************************************************)
DeclaredIds == {Normalized.nodes[i].id : i \in 1..Len(Normalized.nodes)}

NodeNamed(id) == Normalized.nodes[CHOOSE i \in 1..Len(Normalized.nodes) :
                                      Normalized.nodes[i].id = id]

TargetsOfNode(node) == {node.transitions[k].target_node_id : k \in 1..Len(node.transitions)}

\* unique node ids, entry and every transition target resolve to declared nodes
ValidGraph ==
    /\ Len(Normalized.nodes) > 0
    /\ Cardinality(DeclaredIds) = Len(Normalized.nodes)
    /\ Normalized.entry_node_id \in DeclaredIds
    /\ \A id \in DeclaredIds : TargetsOfNode(NodeNamed(id)) \subseteq DeclaredIds

EveryNodeHasAlways ==
    \A id \in DeclaredIds :
        \E k \in 1..Len(NodeNamed(id).transitions) : NodeNamed(id).transitions[k].type = "always"

\* C5: in a valid graph (unique node ids, entry and all transition targets declared)
\* where every node has an always transition, the run reaches the terminal state after
\* at most len(nodes) node executions.
C5_AlwaysGraphWithinNodeCount ==
    (ValidGraph /\ EveryNodeHasAlways) => Len(visited) <= Len(Normalized.nodes)

(***************************************************************************)
(* Keyword routing                                                         *)
(***************************************************************************)
\* the keyword occurs in the text at some position, letter case ignored
Occurs(keyword, text) ==
    /\ Len(keyword) > 0
    /\ \E i \in 0..(Len(text) - Len(keyword)) :
           \A j \in 1..Len(keyword) : LowerTok(text[i + j]) = LowerTok(keyword[j])

\* a selector decision has just been taken for the node executed last
AtDecision == pc \in {"enter", "extract"} /\ Len(visited) > 0 /\ routed # ""

DecidingNode == NodeNamed(Last(visited))

KeywordOnly(node) ==
    /\ Len(node.transitions) > 0
    /\ \A k \in 1..Len(node.transitions) :
           /\ node.transitions[k].type = "keyword"
           /\ node.transitions[k].target_node_id \in DeclaredIds

AssistantIndexes == {i \in 1..Len(messages) : messages[i].type = "ai"}

\* the keyword occurs in the latest assistant message of the sequence
OccursInLatestAnswer(keyword) ==
    \E i \in AssistantIndexes :
        /\ \A j \in AssistantIndexes : j <= i
        /\ Occurs(keyword, messages[i].content)

\* C6 as claimed: for a node with keyword transitions only, a user message holding a
\* transition's keyword routes to such a transition's target, and a user message
\* holding none of the keywords routes to "end".
C6_KeywordRoutingByUserMessage ==
    (AtDecision /\ KeywordOnly(DecidingNode)) =>
        LET ts == DecidingNode.transitions
            hits == {k \in 1..Len(ts) : Occurs(ts[k].value, message)}
        IN  IF hits # {} THEN routed \in {ts[k].target_node_id : k \in hits}
            ELSE routed = "end"

\* C6 amended: the selector returns the target of the first transition, in declared
\* order, whose keyword occurs (case-insensitively, anywhere) in the latest real user
\* message or else in the latest assistant message; "end" when no keyword occurs in
\* either.
C6_KeywordRoutingUserThenAssistant ==
    (AtDecision /\ KeywordOnly(DecidingNode)) =>
        LET ts == DecidingNode.transitions
            hits == {k \in 1..Len(ts) :
                        Occurs(ts[k].value, message) \/ OccursInLatestAnswer(ts[k].value)}
        IN  IF hits # {}
            THEN \E k \in hits : (\A h \in hits : k <= h) /\ routed = ts[k].target_node_id
            ELSE routed = "end"

\* "Billing" in the middle of the user message matches the keyword "BILLING" of the
\* second transition, and nothing matches the first
C6_Witness ==
    /\ AtDecision /\ KeywordOnly(DecidingNode) /\ Len(DecidingNode.transitions) = 2
    /\ message = <<"my", "Billing", "question">>
    /\ routed = DecidingNode.transitions[2].target_node_id
    /\ pc = "enter"

(***************************************************************************)
(* Default edge, two-node walk                                             *)
(***************************************************************************)
NoDeclaredTarget(node) == TargetsOfNode(node) \cap DeclaredIds = {}

\* C7: a node with no transitions, or none whose target is a declared node, leads
\* unconditionally to the terminal state: once it has executed no further node executes.
C7_NoTargetNodeEndsRun ==
    build_graph_error(config) = <<>> =>
        /\ \A i \in 1..Len(visited) :
               NoDeclaredTarget(NodeNamed(visited[i])) =>
                   /\ i = Len(visited)
                   /\ pc \in {"loop", "route", "extract", "done"}
        /\ (pc \in {"extract", "done"} /\ NoDeclaredTarget(NodeNamed(cur))) => routed = "end"

\* a node whose only transition names an undeclared node ended the run although
\* another node is declared
C7_Witness ==
    /\ pc = "done" /\ visited = <<"A">> /\ Len(Normalized.nodes) = 2
    /\ Len(NodeNamed("A").transitions) = 1 /\ NoDeclaredTarget(NodeNamed("A"))

\* entry node A has exactly one transition, of type keyword, to another node B that has
\* no transitions, and the user message holds the keyword
TwoNodeKeywordWalk ==
    /\ ValidGraph
    /\ LET a == NodeNamed(Normalized.entry_node_id)
       IN  /\ Len(a.transitions) = 1
           /\ a.transitions[1].type = "keyword"
           /\ a.transitions[1].target_node_id # a.id
           /\ Len(NodeNamed(a.transitions[1].target_node_id).transitions) = 0
           /\ Occurs(a.transitions[1].value, message)

\* C8: in that graph the run executes A once, then B once, then terminates, and the
\* final sequence is the initial one, then what A appended, then what B appended.
C8_KeywordWalkVisitsAThenB ==
    TwoNodeKeywordWalk =>
        LET a == Normalized.entry_node_id
            b == NodeNamed(a).transitions[1].target_node_id
        IN  /\ IsPrefix(visited, <<a, b>>)
            /\ pc \in {"extract", "done"} =>
                  /\ visited = <<a, b>>
                  /\ Len(returned) = 2
                  /\ IsPrefix(InitialMessages, returned[1])
                  /\ Len(returned[1]) > Len(InitialMessages)
                  /\ IsPrefix(returned[1], returned[2])
                  /\ Len(returned[2]) > Len(returned[1])
                  /\ messages = returned[2]
                  /\ \A i \in (Len(InitialMessages) + 1)..Len(messages) :
                         messages[i].type = "ai" \/ messages[i].from_tool

C8_Witness ==
    /\ TwoNodeKeywordWalk /\ pc = "done" /\ Len(history) > 0
    /\ visited = <<"A", "B">>
    /\ Len(messages) = Len(InitialMessages) + 2

(***************************************************************************)
(* Reply extraction                                                        *)
(***************************************************************************)
\* an assistant message whose content is non-empty and parses to no tool call
QualifiesAsAnswer(msg) ==
    /\ msg.type = "ai"
    /\ Len(_normalize_content(msg.content)) > 0
    /\ Len(_extract_tool_calls(_normalize_content(msg.content), <<>>, <<>>)) = 0

\* content of the most recent qualifying assistant message, else the fixed fallback
MostRecentAnswer(final_messages) ==
    LET qualifying == {i \in 1..Len(final_messages) : QualifiesAsAnswer(final_messages[i])}
    IN  IF qualifying = {} THEN FALLBACK_REPLY
        ELSE _normalize_content(
                 final_messages[CHOOSE i \in qualifying : \A j \in qualifying : j <= i].content)

\* C9: process returns the content of the most recent assistant message of the final
\* sequence that is non-empty and not a parseable tool-call payload, the fixed fallback
\* string when there is none, and never the content of a user or tool-origin message.
C9_ReplyIsMostRecentAnswer ==
    pc = "done" =>
        /\ reply = MostRecentAnswer(messages)
        /\ \/ reply = FALLBACK_REPLY
           \/ \E i \in 1..Len(messages) :
                  messages[i].type = "ai" /\ reply = _normalize_content(messages[i].content)

(***************************************************************************)
(* Tool failures                                                           *)
(***************************************************************************)
ErrorMarkers ==
    {"Timeout Error:", "Connection Error:", "HTTP Error", "Unexpected error calling API:",
     "Error calling tool", "is not a valid tool, try one of"}

\* the call names no tool of the node, lacks the required argument of the search tool,
\* or goes to an endpoint that times out, refuses, answers an error status or breaks
FailingCall(tool_call) ==
    \/ tool_call.name \notin ToolNames(NodeTools(CurNode))
    \/ tool_call.name = "search_documents" /\ "query" \notin ArgKeys(tool_call.arguments)
    \/ tool_call.name \in DOMAIN endpoint /\ endpoint[tool_call.name] # "ok"

HasErrorMarker(content) == \E i \in 1..Len(content) : content[i] \in ErrorMarkers

\* a model turn of the current node has just executed tool calls
AfterToolRound == InNode /\ llm_calls > 0 /\ Len(last_calls) > 0

\* C10: a failing tool invocation becomes a text result with an identifiable error
\* marker, appended as that call's tool-origin message; the other calls of the round
\* still get their message in call order, the turn loop goes on while the cap allows,
\* and nothing is raised out of the node executor.
C10_ToolFailureBecomesTextResult ==
    AfterToolRound =>
        /\ raised = <<>>
        /\ Len(messages) = Len(turn_base) + 1 + Len(last_calls)
        /\ messages[Len(turn_base) + 1].type = "ai"
        /\ \A i \in 1..Len(last_calls) :
               LET msg == messages[Len(turn_base) + 1 + i]
               IN  /\ msg.type = "human" /\ msg.from_tool
                   /\ msg.tool_call_id = last_calls[i].id
                   /\ IsPrefix(<<"Tool", last_calls[i].name, "replied:">>, msg.content)
                   /\ FailingCall(last_calls[i]) => HasErrorMarker(msg.content)
        /\ llm_calls < max_iterations => pc = "loop"
        /\ llm_calls = max_iterations => pc = "route" /\ Last(returned) = messages

\* the first of two calls of a round timed out, the second got its result, and the
\* model was invoked again
C10_Witness ==
    /\ AfterToolRound /\ pc = "loop" /\ llm_calls >= 2
    /\ Len(last_calls) = 2
    /\ FailingCall(last_calls[1]) /\ ~FailingCall(last_calls[2])
    /\ endpoint[last_calls[1].name] = "timeout"
    /\ "Timeout Error:" \in Range(messages[Len(turn_base) + 2].content)

\* an unknown tool name and a search call without query were answered with a marker
C10_WitnessUnknownTool ==
    /\ AfterToolRound
    /\ \E i \in 1..Len(last_calls) : last_calls[i].name \notin ToolNames(NodeTools(CurNode))

(***************************************************************************)
(* Retrieval allowlist                                                     *)
(***************************************************************************)
\* the automatic context message of a node
IsAutoContext(msg) == msg.from_tool /\ msg.tool_call_id = <<"auto_rag_context">>

\* the tool-origin message of a search_documents call that ran a search
IsSearchResult(msg) ==
    /\ msg.from_tool
    /\ IsPrefix(<<"Tool", "search_documents", "replied:">>, msg.content)
    /\ "Error calling tool" \notin Range(msg.content)
    /\ "Please provide a search query." \notin Range(msg.content)

RetrievalIndexes ==
    {i \in (Len(InitialMessages) + 1)..Len(messages) :
        IsAutoContext(messages[i]) \/ IsSearchResult(messages[i])}

\* the node execution that appended messages[i]: executions that returned a shorter
\* sequence came before it
ProducerOf(i) ==
    NodeNamed(visited[Cardinality({j \in 1..Len(returned) : Len(returned[j]) < i}) + 1])

\* the document id of the chunk, however represented, is no member of the allowlist
OutsideAllowlist(chunk, allowed) ==
    \A a \in allowed : chunk.document_id # PyStr(a) /\ chunk.document_id # PyInt(a)

ChunksShown(msg) == {chunk \in Range(documents) : chunk.text \in Range(msg.content)}

\* C11: in a node with use_rag the automatic context and the retrieval tool apply the
\* allowlist alike: with an empty allowed_document_ids every retrieved chunk is shown,
\* with a non-empty one no chunk whose document_id is outside the set is shown, and the
\* two show the same chunks.
C11_AllowlistAppliedAlike ==
    (pc \notin {"request", "process", "failed"} /\ Len(visited) > 0) =>
        \A i \in RetrievalIndexes :
            LET allowed == ProducerOf(i).allowed_document_ids
            IN  /\ ProducerOf(i).use_rag
                /\ allowed = {} => ChunksShown(messages[i]) = Range(documents)
                /\ allowed # {} =>
                       \A chunk \in ChunksShown(messages[i]) : ~OutsideAllowlist(chunk, allowed)
                /\ \A j \in RetrievalIndexes :
                       ProducerOf(j) = ProducerOf(i) =>
                           ChunksShown(messages[j]) = ChunksShown(messages[i])

\* node A without allowlist showed both chunks in its context and in its search result;
\* node B with the allowlist [7] ran a search over the same store and showed no chunk
\* of document 8
C11_Witness ==
    /\ pc = "done" /\ Len(documents) = 2
    /\ \E i, j, k \in RetrievalIndexes :
           /\ IsAutoContext(messages[i]) /\ IsSearchResult(messages[j])
           /\ ProducerOf(i) = ProducerOf(j) /\ ProducerOf(i).allowed_document_ids = {}
           /\ ChunksShown(messages[j]) = Range(documents)
           /\ IsSearchResult(messages[k]) /\ ProducerOf(k).allowed_document_ids = {7}
           /\ \A chunk \in Range(documents) :
                  OutsideAllowlist(chunk, {7}) => chunk \notin ChunksShown(messages[k])

(***************************************************************************)
(* Configuration errors                                                    *)
(***************************************************************************)
\* the entry is an object with an id, or a text that parses into one
UsableEntry(entry) ==
    \/ "id" \in DOMAIN entry
    \/ "str" \in DOMAIN entry /\ entry.str = NODE_B_JSON

IdOfEntry(entry) == IF "id" \in DOMAIN entry THEN entry.id ELSE "B"

NormalizedNodes == _normalize_graph_config(config, BotSystemPrompt).nodes

NormalizedEntry == _normalize_graph_config(config, BotSystemPrompt).entry_node_id

\* ids of the valid nodes that remain after normalization
UsableIds ==
    {IdOfEntry(NormalizedNodes[i]) :
        i \in {j \in 1..Len(NormalizedNodes) : UsableEntry(NormalizedNodes[j])}}

ConfigurationError == UsableIds = {} \/ NormalizedEntry \notin UsableIds

Compiled == pc \notin {"request", "process"}

C12_WitnessFailure ==
    /\ pc = "failed" /\ Len(config.nodes) = 3 /\ UsableIds = {}
    /\ raised = <<"No valid nodes found in graph config">>

(***************************************************************************)
(* Fallback graph                                                          *)
(***************************************************************************)
LacksNodes == Len(config.nodes) = 0 /\ config.nodes_str = ""

LacksEntry == config.entry_node_id = ""

\* the single node "default" with the bot's prompt and the legacy flat fields
FallbackNode ==
    [id |-> "default", system_prompt |-> BotSystemPrompt, use_rag |-> config.use_rag,
     api_tool_ids |-> config.api_tool_ids, allowed_document_ids |-> {},
     transitions |-> <<>>]

RunsFallbackGraph == cur = "default" /\ CurNode = FallbackNode /\ DeclaredIds = {"default"}

\* C13: the single-node fallback graph (entry "default", one node "default" with the
\* bot's top-level prompt, the legacy use_rag/api_tool_ids and no transitions) is what
\* runs when, and only when, the config lacks both nodes and entry_node_id; a config
\* that supplies nodes runs the graph of those nodes.
C13_FallbackOnlyWhenBothLacking ==
    (Compiled /\ pc # "failed") =>
        /\ RunsFallbackGraph <=> (LacksNodes /\ LacksEntry)
        /\ ~LacksNodes => cur \in UsableIds /\ ~RunsFallbackGraph

(***************************************************************************)
(* Isolation of concurrent requests                                        *)
(***************************************************************************)
OtherRequest(r) == 3 - r

SeededMessages(r) ==
    Append(HistoryMessages(RequestHistory(r)), HumanMessage(RequestMessage(r)))

\* texts that belong to request r: its history, its message, the answers to its calls
\* and the results of its tool calls
TextsOf(r) ==
    {RequestMessage(r)}
    \cup {RequestHistory(r)[i].content : i \in 1..Len(RequestHistory(r))}
    \cup {response.content : response \in RequestModel(r)}
    \cup {Strip(response.content) : response \in RequestModel(r)}
    \cup {requests[r].messages[i].content :
             i \in {j \in 1..Len(requests[r].messages) : requests[r].messages[j].from_tool}}

Running(r) == requests[r].pc \notin {"process"}

\* C14: two requests served concurrently by the one service instance each run on their
\* own message sequence: under every interleaving of their steps, the sequence of a
\* request starts with its own history and message, and no text of the other request
\* is in its sequence or in its reply.
C14_RequestsIsolated ==
    requests # <<>> =>
        \A r \in RequestIds :
            Running(r) =>
                /\ IsPrefix(SeededMessages(r), requests[r].messages)
                /\ \A i \in 1..Len(requests[r].messages) :
                       requests[r].messages[i].content \notin TextsOf(OtherRequest(r))
                /\ requests[r].reply \notin TextsOf(OtherRequest(r))
                /\ requests[r].pc = "done" => requests[r].reply \in TextsOf(r)

\* request 2 was in its second node while request 1 was between two model calls of its
\* tool loop, and later both had replied
C14_Witness ==
    /\ requests # <<>>
    /\ requests[1].pc = "done" /\ requests[2].pc = "done"
    /\ Len(requests[1].messages) > Len(SeededMessages(1)) + 2
    /\ requests[2].visited = <<"A", "B">>
    /\ requests[1].reply # requests[2].reply

C14_WitnessInterleaved ==
    /\ requests # <<>>
    /\ requests[1].pc = "loop" /\ requests[1].iteration >= 1
    /\ requests[2].pc = "loop" /\ Len(requests[2].visited) = 2

(***************************************************************************)
(* The tool-call parser on its own                                         *)
(***************************************************************************)
Parsed == parser # <<>> /\ parser[1].pc # "text"

\* the text holds the canonical envelope once and, around it, only fences, prose,
\* white space or other pieces that are not envelopes
HoldsCanonicalEnvelopeOnce(text) ==
    Len(SelectTokens(text, EnvelopeTokens)) = 1 /\ SelectTokens(text, EnvelopeTokens) = <<ENV_T>>

CanonicalCall == [id |-> <<"call_", "t">>, name |-> "t", arguments |-> {<<"a", "1">>}]

\* C15: a text holding the canonical envelope {"action":"tool","tool_name":"t",
\* "arguments":{"a":"1"}} parses to exactly one tool call named t with arguments
\* {"a":"1"}, and the result is the same when the envelope stands bare, inside a
\* fenced code block, or surrounded by prose
C15_CanonicalEnvelopeParsesToOneCall ==
    (Parsed /\ HoldsCanonicalEnvelopeOnce(parser[1].content)) =>
        /\ parser[1].pc = "returned"
        /\ parser[1].calls = <<CanonicalCall>>

C15_WitnessFenced ==
    /\ Parsed
    /\ parser[1].content = <<FENCE_JSON, ENV_T, FENCE>>
    /\ parser[1].calls = <<CanonicalCall>>

C15_WitnessProse ==
    /\ Parsed
    /\ parser[1].content = <<"Sure,", ENV_T, "now.">>
    /\ parser[1].calls = <<CanonicalCall>>

\* C16: the parser is total: for every input text it returns a list of tool calls,
\* possibly empty, and never raises
C16_ParserNeverRaises ==
    Parsed => parser[1].pc = "returned" /\ parser[1].error = <<>>

(***************************************************************************)
(* Tool calls of one model response                                        *)
(***************************************************************************)
\* the latest pass of the turn loop got a response that was appended as it is
ResponseAppended ==
    InNode /\ llm_calls > 0 /\ last_response.exc = "none" /\ Len(last_response.content) > 0

\* the tool calls the model (native calls) or the parser (text) produced for it
ProducedCalls == DetermineToolCalls(last_response, turn_base, NodeTools(CurNode))

\* the messages the pass appended after the model's response
AppendedAfterResponse == SubSeq(messages, Len(turn_base) + 2, Len(messages))

\* C17: for a model response that yields tool calls, the executor invokes exactly the
\* calls the model or the parser produced, in the order produced, and appends after
\* the response exactly one tool-origin message per produced call, labelled with that
\* call's tool name, in the same order
C17_ExecutesExactlyProducedCalls ==
    (ResponseAppended /\ Len(ProducedCalls) > 0 /\ Len(NodeTools(CurNode)) > 0) =>
        /\ last_calls = ProducedCalls
        /\ messages[Len(turn_base) + 1] = ResponseMessage(last_response)
        /\ Len(AppendedAfterResponse) = Len(ProducedCalls)
        /\ \A i \in 1..Len(AppendedAfterResponse) :
               /\ AppendedAfterResponse[i].from_tool
               /\ i <= Len(ProducedCalls) =>
                      /\ AppendedAfterResponse[i].tool_call_id = ProducedCalls[i].id
                      /\ SubSeq(AppendedAfterResponse[i].content, 1, 3)
                             = <<"Tool", ProducedCalls[i].name, "replied:">>

(***************************************************************************)
(* Consumption of tool results                                             *)
(***************************************************************************)
\* positions of the tool-origin messages the current node execution appended
OwnToolResults ==
    {i \in (Len(entry_messages) + 1)..Len(messages) : messages[i].from_tool}

\* C18: every tool result appended during a node's turn loop is consumed by the model:
\* when the node execution ends, each tool-origin message it appended has been part of
\* the input of a model invocation of that same execution
C18_ToolResultsConsumed ==
    pc = "route" =>
        \A i \in OwnToolResults :
            i + 1 <= Len(llm_input) /\ llm_input[i + 1] = messages[i]

(***************************************************************************)
(* Native structured tool calls                                            *)
(***************************************************************************)
\* the native structured calls of the latest response, as tool calls
NativeCalls ==
    [i \in 1..Len(last_response.tool_calls) |->
        [id |-> last_response.tool_calls[i].id, name |-> last_response.tool_calls[i].name,
         arguments |-> last_response.tool_calls[i].arguments]]

IsSuffix(s, t) == Len(s) <= Len(t) /\ SubSeq(t, Len(t) - Len(s) + 1, Len(t)) = s

\* the calls the text parser yields for the content of the latest response
TextCalls == _extract_tool_calls(_normalize_content(last_response.content), turn_base,
                                 NodeTools(CurNode))

AnsweredWithNativeCalls ==
    InNode /\ llm_calls > 0 /\ last_response.exc = "none"
        /\ Len(last_response.tool_calls) > 0

\* C19: when a model response carries native structured tool calls, those calls are
\* the ones taken for execution and the text parser is not consulted, whatever the
\* text content of the response is, including when it is empty
C19_NativeCallsTaken ==
    AnsweredWithNativeCalls =>
        /\ IsSuffix(NativeCalls, last_calls)
        /\ \A i \in 1..Len(last_calls) :
               \A j \in 1..Len(TextCalls) : last_calls[i] # TextCalls[j]

(***************************************************************************)
(* How the turn loop ends                                                  *)
(***************************************************************************)
\* the latest pass of the turn loop appended the model's response
AfterResponseAppended ==
    /\ InNode /\ llm_calls > 0 /\ last_response.exc = "none"
    /\ Len(messages) > Len(turn_base)
    /\ messages[Len(turn_base) + 1] = ResponseMessage(last_response)

\* the loop ended with the response: nothing was executed and the executor returned
LoopEndedWithResponse ==
    /\ pc = "route"
    /\ last_calls = <<>>
    /\ messages = Append(turn_base, ResponseMessage(last_response))
    /\ Last(returned) = messages

\* the loop went on after the response: tools were executed
LoopWentOn == Len(last_calls) > 0 \/ Len(messages) > Len(turn_base) + 1 \/ pc = "loop"

\* C20: after the model's response is appended the turn loop ends if the response has
\* non-empty text and no tool calls, and ends whatever the content if there are no
\* tool calls and the node has no executable tools; it goes on to execute tools and
\* to invoke the model again only when the response yielded at least one tool call
C20_LoopEndsOnAnswerGoesOnOnlyOnCalls ==
    AfterResponseAppended =>
        /\ (Len(last_response.content) > 0 /\ Len(ProducedCalls) = 0)
               => LoopEndedWithResponse
        /\ (Len(ProducedCalls) = 0 /\ Len(NodeTools(CurNode)) = 0)
               => LoopEndedWithResponse
        /\ LoopWentOn => Len(ProducedCalls) > 0

\* a plain-text answer ends the loop of a node with tools after a round of tool calls
C20_Witness ==
    /\ AfterResponseAppended /\ LoopEndedWithResponse
    /\ Len(NodeTools(CurNode)) > 0 /\ llm_calls >= 2
    /\ Len(ProducedCalls) = 0

\* the loop goes on after a response that yielded a tool call
C20_WitnessGoesOn ==
    /\ AfterResponseAppended /\ LoopWentOn /\ pc = "loop"
    /\ Len(ProducedCalls) > 0

\* a response that yields a call on a node without tools ends the loop
C20_WitnessNoTools ==
    /\ AfterResponseAppended /\ LoopEndedWithResponse
    /\ Len(NodeTools(CurNode)) = 0 /\ Len(ProducedCalls) > 0

(***************************************************************************)
(* Effective system instruction of a node                                  *)
(***************************************************************************)
\* the node's own prompt when it has one, otherwise the bot's top-level prompt
OwnOrBotPrompt(node_config) ==
    IF Len(Strip(node_config.system_prompt)) > 0 THEN Strip(node_config.system_prompt)
    ELSE BotSystemPrompt

\* that prompt followed by the generated tool instructions when the node has tools
StatedInstruction(node_config) ==
    IF Len(NodeTools(node_config)) > 0
    THEN OwnOrBotPrompt(node_config) \o <<"\n\n">>
             \o _build_tool_instruction(NodeTools(node_config))
    ELSE OwnOrBotPrompt(node_config)

\* C21: the effective system instruction of a node, the one every model invocation of
\* the node starts with, is the node's own system_prompt when it has one, otherwise
\* the bot's top-level system prompt, concatenated with the generated tool-usage
\* instructions when the node has tools
C21_OwnPromptElseBotPrompt ==
    (InNode /\ llm_calls > 0) =>
        llm_input[1] = SystemMessage(StatedInstruction(CurNode))

(***************************************************************************)
(* Decisions of the Transition Selector                                    *)
(***************************************************************************)
\* the node executed last is wired with a conditional edge and its selector has decided
AtSelectorDecision ==
    /\ AtDecision
    /\ TargetsOfNode(DecidingNode) \cap DeclaredIds # {}

\* declared targets of the llm_routing transitions of a node, in declared order
Candidates(node) ==
    LET ks == {k \in 1..Len(node.transitions) :
                  /\ node.transitions[k].type = "llm_routing"
                  /\ node.transitions[k].target_node_id \in DeclaredIds}
    IN  {node.transitions[k].target_node_id : k \in ks}

\* the transition's condition matches: always unconditionally, keyword by substring of
\* the user message or of the latest answer
ConditionMatches(transition) ==
    \/ transition.type = "always"
    \/ /\ transition.type = "keyword"
       /\ Occurs(transition.value, message) \/ OccursInLatestAnswer(transition.value)

\* positions of the transitions the linear scan can take
Matching(node) ==
    {k \in 1..Len(node.transitions) :
        /\ node.transitions[k].target_node_id \in DeclaredIds
        /\ ConditionMatches(node.transitions[k])}

\* C22: the selector returns the target of the first transition, in declared order,
\* whose condition matches, except that llm_routing transitions, when the node has
\* them, are pooled and resolved by one model call before the linear scan of the
\* other transitions; transitions to undeclared nodes are skipped and when nothing
\* matches the selector returns "end"
C22_FirstMatchAfterPooledRouting ==
    AtSelectorDecision =>
        LET node == DecidingNode
        IN  /\ Len(routing) <= 1
            /\ (Len(routing) = 1) <=> (Candidates(node) # {})
            /\ IF Candidates(node) # {}
               THEN routed \in Candidates(node)
               ELSE IF Matching(node) # {}
               THEN \E k \in Matching(node) :
                        /\ \A h \in Matching(node) : k <= h
                        /\ routed = node.transitions[k].target_node_id
               ELSE routed = "end"

\* the routing model decides although a keyword transition declared earlier matches
C22_Witness ==
    /\ AtSelectorDecision /\ config = RoutingConfig
    /\ Occurs(<<"billing">>, message)
    /\ routed = "general_support"

\* undeclared targets are skipped and the keyword transition behind them is taken
C22_WitnessSkip ==
    /\ AtSelectorDecision /\ config = GhostRoutingConfig
    /\ routing = <<>> /\ routed = "B"

\* nothing matches
C22_WitnessEnd ==
    /\ AtSelectorDecision /\ routed = "end"

(***************************************************************************)
(* Resolution of llm_routing                                               *)
(***************************************************************************)
\* the candidates of the deciding node in declared order
CandidateList ==
    DeclaredTargets(SelectSeq(DecidingNode.transitions, IsLlmRouting), DeclaredIds)

\* the routing model answered the latest decision with some text
RoutingAnswered ==
    /\ AtSelectorDecision /\ Len(routing) = 1
    /\ routing[1].exc = "none" /\ Len(routing[1].content) > 0

\* candidates whose id equals the model's output, letter case aside
MatchedByOutput ==
    SelectSeq(CandidateList,
              LAMBDA id : Lower(Strip(routing[1].content)) = <<LowerTok(id)>>)

GeneralOrOther == SelectSeq(CandidateList, MentionsGeneralOrOther)

\* C23: in llm_routing the model's output is matched case-insensitively against the
\* candidate ids; when it matches none the selector returns the first candidate whose
\* id contains "general" or "other", and the first candidate overall only when no
\* candidate id contains either word
C23_UnmatchedFallsBackToGeneral ==
    RoutingAnswered =>
        IF Len(MatchedByOutput) > 0 THEN routed = MatchedByOutput[1]
        ELSE IF Len(GeneralOrOther) > 0 THEN routed = GeneralOrOther[1]
        ELSE routed = CandidateList[1]

(***************************************************************************)
(* llm_routing never fails the request                                     *)
(***************************************************************************)
RoutingModelFailed ==
    Len(routing) = 1 /\ (routing[1].exc # "none" \/ Len(routing[1].content) = 0)

C24_WitnessEmpty ==
    /\ AtSelectorDecision /\ config = RoutingConfig
    /\ Len(routing) = 1 /\ routing[1].exc = "none" /\ Len(routing[1].content) = 0
    /\ routed = "B"

\* ---------------------------------------------------------------------
\* C25  Date backfill of calls without arguments
\* ---------------------------------------------------------------------

\* The date the claim speaks of: the normalized date of the most recent
\* real user message of the context that holds one ("" when none does).
MostRecentStatedDate == ContextDate(parser[1].context)

ParserReturnedWithDatedContext ==
    /\ parser # <<>>
    /\ parser[1].pc = "returned"
    /\ MostRecentStatedDate # ""

\* C25: whenever the parser returns a call that has no arguments, found
\* by whichever strategy (the canonical JSON envelope included), and a
\* real user message of the context holds a date, then the call carries
\* the date argument of the most recent such message; so no returned
\* call is left without arguments, and a call whose only argument is a
\* date filled in from the context carries that normalized date.
C25_NoArgumentCallGetsContextDate ==
    ParserReturnedWithDatedContext =>
        \A i \in 1..Len(parser[1].calls) :
            /\ parser[1].calls[i]["arguments"] # {}
            /\ parser[1].calls[i]["name"] = "search_documents"
                   => parser[1].calls[i]["arguments"]
                          = {<<"date", MostRecentStatedDate>>}

\* The part of C25 the code does keep: a call found by the
\* "name: [" result strategy comes back with the context's date.
C25_ResultStrategyBackfilled ==
    (/\ ParserReturnedWithDatedContext
     /\ Len(parser[1].content) > 0
     /\ parser[1].content[1] = RESULT_SEARCH
     /\ SelectTokens(parser[1].content, EnvelopeTokens \cup {ENV_SEARCH_NOARGS}) = <<>>
     /\ parser[1].calls # <<>>
     /\ parser[1].calls[1]["name"] = "search_documents")
        => parser[1].calls[1]["arguments"] = {<<"date", MostRecentStatedDate>>}

C25_WitnessResultStrategy ==
    /\ ParserReturnedWithDatedContext
    /\ parser[1].content = <<RESULT_SEARCH>>
    /\ parser[1].calls = <<[id |-> <<"call_", "search_documents">>,
                            name |-> "search_documents",
                            arguments |-> {<<"date", "2025-12-08">>}]>>

\* ---------------------------------------------------------------------
\* C26  Compiling performs no I/O
\* ---------------------------------------------------------------------

GraphCompiled == pc \notin {"request", "process"}

\* C26: compiling a graph config performs no I/O: between the call and the
\* return of build_graph_from_config nothing is read from or written to the
\* database / API-tool store, the retrieval store, the language model or an
\* HTTP endpoint, for every config, those whose nodes list api_tool_ids
\* included.
C26_CompileDoesNoIO ==
    GraphCompiled => compile_io = <<>>

\* what the code keeps of C26: a config none of whose nodes lists
\* api_tool_ids is compiled without I/O
C26_NoIOWithoutApiTools ==
    (/\ GraphCompiled
     /\ \A i \in 1..Len(Normalized.nodes) : Normalized.nodes[i].api_tool_ids = <<>>)
        => compile_io = <<>>

\* ---------------------------------------------------------------------
\* C27  The selector returns keys of the edge mapping only
\* ---------------------------------------------------------------------

\* keys of the mapping handed to add_conditional_edges for the node
EdgeMappingKeys(node) == (TargetsOfNode(node) \cap DeclaredIds) \cup {"end"}

\* C27: for every node wired with a conditional edge, whatever the
\* conversation state and the routing model's output, the value its
\* Transition Selector returns is a key of that node's edge mapping:
\* "end" or a transition target of the node that is a declared node id.
C27_SelectorReturnsMappedLabel ==
    AtSelectorDecision => routed \in EdgeMappingKeys(DecidingNode)

\* the routing model answers with a text that names no node and the node
\* also has transitions to an undeclared node
C27_Witness ==
    /\ AtSelectorDecision
    /\ ~(TargetsOfNode(DecidingNode) \subseteq DeclaredIds)
    /\ routed \in DeclaredIds

\* the routing model's unmatched output does not leak into the label
C27_WitnessRouting ==
    /\ AtSelectorDecision
    /\ Len(routing) = 1 /\ routing[1].content = <<"no", "idea">>
    /\ routed \in TargetsOfNode(DecidingNode) \cap DeclaredIds

\* ---------------------------------------------------------------------
\* C28  The latest real user message is the request's new message
\* ---------------------------------------------------------------------

GraphRunning == pc \in {"enter", "loop", "route", "extract", "done"}

\* position of the request's new message in state["messages"]
NewMessageIndex == Len(HistoryMessages(history)) + 1

AppendedByExecutors == {i \in 1..Len(messages) : i > NewMessageIndex}

\* C28: throughout a graph run the latest real user message, which the RAG
\* query, the keyword matching and llm_routing use, is the request's new
\* inbound message: every user-role message a node executor appends
\* (automatic RAG context, tool results) is marked tool-origin and skipped,
\* so every node of the walk retrieves and routes on the same user text.
C28_LatestUserMessageIsInbound ==
    GraphRunning =>
        /\ _get_last_user_index(messages) = NewMessageIndex
        /\ _extract_user_query(messages) = message
        /\ \A i \in AppendedByExecutors :
               messages[i].type = "human" => messages[i].from_tool

\* a second node runs after a tool result was appended by the first
C28_Witness ==
    /\ GraphRunning /\ Len(visited) >= 2
    /\ \E i \in AppendedByExecutors :
           /\ messages[i].type = "human"
           /\ messages[i].tool_call_id # <<"auto_rag_context">>

\* automatic RAG context was appended before a routing decision
C28_WitnessRag ==
    /\ GraphRunning /\ AtSelectorDecision
    /\ \E i \in AppendedByExecutors :
           messages[i].tool_call_id = <<"auto_rag_context">>

\* ---------------------------------------------------------------------
\* C29  The reply comes from the current request
\* ---------------------------------------------------------------------

\* assistant messages appended during the current request
AppendedAssistant ==
    {i \in AppendedByExecutors : messages[i].type = "ai"}

\* C29: the reply returned by process_message is the fixed fallback string
\* or the content of an assistant message appended during the current
\* request; it is never the content of an assistant message that was
\* already in the supplied history, also when every model response of the
\* request is a tool-call payload or the iteration cap is exhausted.
C29_ReplyFromCurrentRequest ==
    pc = "done" =>
        \/ reply = FALLBACK_REPLY
        \/ \E i \in AppendedAssistant :
               reply \in {messages[i].content, _normalize_content(messages[i].content)}

\* the case of C29 where the iteration cap is exhausted on tool-call payloads
C29_CapExhaustedOnPayloads ==
    (/\ pc = "done"
     /\ iteration = max_iterations
     /\ \A i \in AppendedAssistant :
            Len(_extract_tool_calls(_normalize_content(messages[i].content), <<>>, <<>>)) > 0)
        => reply = FALLBACK_REPLY

\* what the code keeps of C29: without an assistant message in the history
\* the reply comes from the current request
C29_HoldsWithoutHistoryAnswer ==
    (pc = "done" /\ \A i \in 1..Len(history) : history[i].role # "assistant")
        => (\/ reply = FALLBACK_REPLY
            \/ \E i \in AppendedAssistant :
                   reply \in {messages[i].content, _normalize_content(messages[i].content)})

\* ---------------------------------------------------------------------
\* C30  History of concurrent requests on one session
\* ---------------------------------------------------------------------

HistoryRead(r) == session # <<>> /\ session[1].req[r].pc \in {"process", "reply", "done"}

Started(r) == session # <<>> /\ session[1].req[r].pc \in {"reply", "done"}

\* the rows request r found persisted, without the user message it inserted itself
PreviouslyPersisted(r) ==
    SelectSeq(session[1].req[r].history_messages,
              LAMBDA row : ~(row.by = r /\ row.role = "user"))

\* C30: for send_message requests on one chat session, two requests running
\* concurrently included, the history handed to process_message is every
\* previously persisted message of the session except the request's own
\* just-inserted user message, so the initial message sequence of the
\* request holds its own new message exactly once, as the last element.
C30_HistoryExcludesOwnMessage ==
    \A r \in RequestIds :
        /\ HistoryRead(r) =>
               session[1].req[r].history = RoleContent(PreviouslyPersisted(r))
        /\ Started(r) =>
               session[1].req[r].initial =
                   Append(HistoryMessages(RoleContent(PreviouslyPersisted(r))),
                          HumanMessage(session[1].req[r].message))

\* no other request inserted a row between the insert and the read of request r
ReadRightAfterInsert(r) ==
    LET rows == session[1].req[r].history_messages
    IN  Len(rows) > 0 /\ Last(rows).by = r /\ Last(rows).role = "user"

\* what the code keeps of C30: a request that reads the rows before any other request
\* inserts one is handed the history the claim describes
C30_HoldsWithoutInterleavedInsert ==
    \A r \in RequestIds :
        (HistoryRead(r) /\ ReadRightAfterInsert(r)) =>
            session[1].req[r].history = RoleContent(PreviouslyPersisted(r))

C30_WitnessSerial ==
    /\ session # <<>>
    /\ \A r \in RequestIds : session[1].req[r].pc = "done" /\ ReadRightAfterInsert(r)


====
